---- MODULE Spec2Model ----
(***************************************************************************)
(* Model of the anti-detection request layer of transfermarkt-api          *)
(* (src/app/services/base.py): the session manager, the monitor, the       *)
(* retry manager and the fetch orchestration of TransfermarktBase.         *)
(*                                                                         *)
(* The running request is a call stack of frames, one frame per Python     *)
(* function that is waiting for a callee; each action below is the code of *)
(* one function acting on the top frame.  Every interaction with the       *)
(* outside (a GET, a browser rendering, the wall clock) is an input drawn  *)
(* with \E.  avg_response_time is a float that no decision reads; it is    *)
(* left out of the monitor record.                                         *)
(***************************************************************************)
EXTENDS Integers, Sequences, FiniteSets, TLC

VARIABLES
    monitor,                  \* _monitor: the AntiScrapingMonitor counters
    sessions,                 \* _session_manager.sessions, in dict (insertion) order
    clock,                    \* time.time(), in whole ticks
    next_session,             \* identity of the next requests.Session() constructed
    ENABLE_BROWSER_SCRAPING,  \* settings.ENABLE_BROWSER_SCRAPING
    stack,                    \* call stack of the running request, top last
    ret,                      \* what the callee handed back to the top frame / the caller
    calls,                    \* number of top-level calls made (a behaviour follows one)
    hist,                     \* observation of the running top-level call
    finished,                 \* observation of the last completed execute_with_retry
    last_get,                 \* observation of the last get_session call
    threads,                  \* worker threads sharing _session_manager and _monitor
    retry_runs,               \* one outcome sequence run through both retry loops
    block_check,              \* a response and what _detect_block says of it
    playwright,               \* the browsers of scrape_with_browser calls
    assembly,                 \* an extracted page and the records assembled from it
    extract,                  \* a get_text_by_xpath call and what it gave
    clubs_call,               \* a competition-clubs request and its seasons
    seasons_call              \* the season tokens of a page and the seasons parsed

vars == <<monitor, sessions, clock, next_session, ENABLE_BROWSER_SCRAPING,
          stack, ret, calls, hist, finished, last_get, threads,
          retry_runs, block_check, playwright, assembly, extract, clubs_call, seasons_call>>

\* state of the parts of the program that a request on its own leaves alone
PureVars == <<retry_runs, block_check, playwright, assembly, extract, clubs_call, seasons_call>>

ExtVars == <<threads, PureVars>>

(***************************************************************************)
(* Bounds of the model and constants of the program.                       *)
(***************************************************************************)
MaxGetCalls == 3

NumKeys == 2

max_sessions == 2

session_timeout == 2

max_attempts == 3

MaxClock == session_timeout + 3

UuidBase == 100

NoKey == 0

(***************************************************************************)
(* AntiScrapingMonitor                                                     *)
(***************************************************************************)
MonitorInit ==
    [requests_total |-> 0, requests_successful |-> 0, requests_failed |-> 0,
     blocks_detected |-> 0, retries_performed |-> 0, sessions_created |-> 0,
     browser_requests |-> 0, browser_successes |-> 0]

RecordRequest_FailureNotCounted(m, success, was_blocked) ==
    [m EXCEPT !.requests_total = @ + 1,
              !.requests_successful = IF success THEN @ + 1 ELSE @,
              !.blocks_detected = IF was_blocked THEN @ + 1 ELSE @]

RecordRequest(m, success, was_blocked) ==
    [m EXCEPT !.requests_total = @ + 1,
              !.requests_successful = IF success THEN @ + 1 ELSE @,
              !.requests_failed = IF success THEN @ ELSE @ + 1,
              !.blocks_detected = IF was_blocked THEN @ + 1 ELSE @]

RecordRetry(m) == [m EXCEPT !.retries_performed = @ + 1]

RecordSessionCreated(m) == [m EXCEPT !.sessions_created = @ + 1]

RecordBrowserRequest(m, success) ==
    [m EXCEPT !.browser_requests = @ + 1,
              !.browser_successes = IF success THEN @ + 1 ELSE @]

(***************************************************************************)
(* SmartSessionManager.  The table is a sequence of entries                *)
(* [id, session, created_at] in dict order: a new key is appended, an      *)
(* assignment to an existing key keeps its place.                          *)
(***************************************************************************)
NoSession == 0

HasKey(tbl, key) == \E i \in DOMAIN tbl : tbl[i].id = key

Lookup(tbl, key) == tbl[CHOOSE i \in DOMAIN tbl : tbl[i].id = key]

IsSessionExpired_Flipped(session_data, now) ==
    now - session_data.created_at < session_timeout

IsSessionExpired(session_data, now) ==
    now - session_data.created_at > session_timeout

CleanupExpiredSessions(tbl, current_time) ==
    SelectSeq(tbl, LAMBDA data : ~(current_time - data.created_at > session_timeout))

RemoveAt(tbl, i) == [j \in 1..(Len(tbl) - 1) |-> IF j < i THEN tbl[j] ELSE tbl[j + 1]]

\* min(items, key=created_at): the first entry, in dict order, of least created_at
OldestIndex(tbl) ==
    CHOOSE i \in DOMAIN tbl :
        /\ \A j \in DOMAIN tbl : tbl[i].created_at <= tbl[j].created_at
        /\ \A j \in DOMAIN tbl : tbl[j].created_at = tbl[i].created_at => i <= j

CleanupOldestSession_RemovesNewest(tbl) ==
    IF tbl = <<>> THEN tbl ELSE RemoveAt(tbl, Len(tbl))

CleanupOldestSession(tbl) ==
    IF tbl = <<>> THEN tbl ELSE RemoveAt(tbl, OldestIndex(tbl))

SetItem(tbl, entry) ==
    IF HasKey(tbl, entry.id)
    THEN [i \in DOMAIN tbl |-> IF tbl[i].id = entry.id THEN entry ELSE tbl[i]]
    ELSE Append(tbl, entry)

\* get_session(session_id), reading the clock at t1 (purge), t2 (expiry test of
\* the entry found) and t3 (created_at of a new entry).
GetSession(tbl, m, next, session_id, t1, t2, t3) ==
    LET key     == IF session_id = NoKey THEN UuidBase + next ELSE session_id
        purged  == CleanupExpiredSessions(tbl, t1)
        hit     == HasKey(purged, key) /\ ~IsSessionExpired(Lookup(purged, key), t2)
        entry   == [id |-> key, created_at |-> t3, session |-> next]
        put     == SetItem(purged, entry)
        final   == IF Len(put) > max_sessions THEN CleanupOldestSession(put) ELSE put
    IN  IF hit
        THEN [monitor |-> m, sessions |-> purged, next_session |-> next,
              key |-> key, now |-> t2,
              session |-> Lookup(purged, key).session, created |-> FALSE, inserted |-> purged]
        ELSE [monitor |-> RecordSessionCreated(m), sessions |-> final,
              next_session |-> next + 1, key |-> key, now |-> t3,
              session |-> next, created |-> TRUE, inserted |-> put]

NoGet ==
    [key |-> NoKey, now |-> 0, t1 |-> 0, session |-> NoSession, created |-> FALSE,
     inserted |-> <<>>, n |-> 0, before |-> <<>>,
     prev_key |-> NoKey, prev_session |-> NoSession]

(***************************************************************************)
(* Exceptions and return values.  An exception object is identified by the *)
(* place that raised it (site) and, for make_request, by the number of the *)
(* make_request call within the running top-level call (seq).              *)
(***************************************************************************)
NoError == [type |-> "None", status_code |-> 0, site |-> "", seq |-> 0]

HTTPException(status, site, seq) ==
    [type |-> "HTTPException", status_code |-> status, site |-> site, seq |-> seq]

Raised(type, site, seq) ==
    [type |-> type, status_code |-> 0, site |-> site, seq |-> seq]

\* hasattr(e, "status_code"): fastapi.HTTPException has it, requests' exceptions do not
HasStatusCode(e) == e.type = "HTTPException"

\* except (requests.exceptions.RequestException, HTTPException)
RetryCatches(e) ==
    e.type \in {"HTTPException", "RequestException", "TooManyRedirects",
                "Timeout", "ConnectionError"}

NoRet == [kind |-> "none", val |-> "", exc |-> NoError]

Return(v) == [kind |-> "return", val |-> v, exc |-> NoError]

Raise(e) == [kind |-> "raise", val |-> "", exc |-> e]

(***************************************************************************)
(* TransfermarktBase._detect_block.  A response is its status code, the    *)
(* length of its text and which of the searched substrings the lower-cased *)
(* text contains.                                                          *)
(***************************************************************************)
Response(status, length, brand, phrase, captcha, solve_verify, recaptcha, hcaptcha) ==
    [status_code |-> status, captcha |-> captcha, recaptcha |-> recaptcha,
     hcaptcha |-> hcaptcha, len |-> length, transfermarkt |-> brand,
     block_phrase |-> phrase, solve_or_verify |-> solve_verify]

NoResponse == Response(0, 0, FALSE, FALSE, FALSE, FALSE, FALSE, FALSE)

DetectBlock_Every403(response) ==
    \/ response.status_code \in {403, 429, 503}
    \/ response.len < 1000 /\ ~response.transfermarkt
    \/ response.status_code >= 400 /\ response.block_phrase
    \/ response.captcha /\ response.solve_or_verify
    \/ response.recaptcha
    \/ response.hcaptcha

DetectBlock(response) ==
    IF response.status_code \in {403, 429, 503}
    THEN IF /\ response.status_code = 403
            /\ response.len > 5000
            /\ response.transfermarkt
         THEN FALSE
         ELSE TRUE
    ELSE IF response.len < 1000 /\ ~response.transfermarkt
    THEN TRUE
    ELSE IF response.status_code >= 400 /\ response.block_phrase
    THEN TRUE
    ELSE IF \/ response.captcha /\ response.solve_or_verify
            \/ response.recaptcha
            \/ response.hcaptcha
    THEN TRUE
    ELSE FALSE

\* the responses the upstream site is made to answer with in this model
Responses ==
    { Response(200, 6000, TRUE, FALSE, FALSE, FALSE, FALSE, FALSE),
      Response(404, 2000, TRUE, FALSE, FALSE, FALSE, FALSE, FALSE),
      Response(403, 6000, TRUE, FALSE, FALSE, FALSE, FALSE, FALSE),
      Response(403, 200, FALSE, FALSE, FALSE, FALSE, FALSE, FALSE),
      Response(200, 500, FALSE, FALSE, FALSE, FALSE, FALSE, FALSE),
      Response(429, 6000, TRUE, FALSE, FALSE, FALSE, FALSE, FALSE),
      Response(503, 6000, TRUE, FALSE, FALSE, FALSE, FALSE, FALSE),
      Response(200, 5000, TRUE, FALSE, TRUE, FALSE, TRUE, FALSE),
      Response(404, 2000, TRUE, TRUE, FALSE, FALSE, FALSE, FALSE) }

(***************************************************************************)
(* make_request._single_request: one GET, the block detection, the         *)
(* monitoring and the translation of failures into HTTPException.          *)
(* An input is what session.get did: a response, or the exception raised.  *)
(***************************************************************************)
GetInputs ==
    [kind : {"response"}, resp : Responses]
        \cup [kind : {"TooManyRedirects", "Timeout", "ConnectionError", "Exception"},
              resp : {NoResponse}]

\* the try block, lines 779-800
SingleRequestBody(m, input, seq) ==
    IF input.kind = "response"
    THEN IF DetectBlock(input.resp)
         THEN [monitor |-> RecordRequest(m, FALSE, TRUE),
               ret |-> Raise(HTTPException(403, "_single_request", seq)),
               cls |-> "blocked"]
         ELSE [monitor |-> RecordRequest(m, TRUE, FALSE),
               ret |-> Return("Response"),
               cls |-> "ok"]
    ELSE [monitor |-> m,
          ret |-> Raise(Raised(input.kind, "session.get", seq)),
          cls |-> input.kind]

\* the except clauses, lines 802-813, tried in order; HTTPException is an
\* Exception, so the last clause also catches the one raised in the try block
SingleRequestHandlers(m, body, seq) ==
    IF body.ret.kind # "raise"
    THEN [monitor |-> body.monitor, ret |-> body.ret, cls |-> body.cls]
    ELSE [monitor |-> RecordRequest(body.monitor, FALSE, FALSE),
          ret |-> Raise(HTTPException(
                     CASE body.ret.exc.type = "TooManyRedirects" -> 404
                       [] body.ret.exc.type = "Timeout" -> 408
                       [] body.ret.exc.type = "ConnectionError" -> 503
                       [] OTHER -> 500, "_single_request", seq)),
          cls |-> body.cls]

SingleRequest(m, input, seq) ==
    SingleRequestHandlers(m, SingleRequestBody(m, input, seq), seq)

(***************************************************************************)
(* RetryManager.execute_with_retry                                         *)
(***************************************************************************)
\* what the except clause of one loop iteration does with exception e
RetryDecision_FatalStatus503(e, attempt) ==
    IF ~RetryCatches(e)
    THEN "propagate"
    ELSE IF HasStatusCode(e) /\ e.status_code >= 400
    THEN "raise"
    ELSE IF attempt = max_attempts - 1 THEN "raise" ELSE "continue"

RetryDecision(e, attempt) ==
    IF ~RetryCatches(e)
    THEN "propagate"
    ELSE IF HasStatusCode(e) /\ 400 <= e.status_code /\ e.status_code < 500
    THEN IF e.status_code \in {429, 503} THEN "continue" ELSE "raise"
    ELSE IF attempt = max_attempts - 1 THEN "raise" ELSE "continue"

\* the operations handed to execute_with_retry and what one invocation can do
FuncInputs ==
    [status : {0}, kind : {"return", "RequestException", "Exception"}]
        \cup [status : {400, 404, 429, 500, 503}, kind : {"HTTPException"}]

PlainGetInputs == [kind : {"response", "RequestException"}]

InputsOf(op) ==
    CASE op = "_single_request" -> GetInputs
      [] op = "requests.get" -> PlainGetInputs
      [] OTHER -> FuncInputs

StatusName(status) ==
    CASE status = 400 -> "http400"
      [] status = 404 -> "http404"
      [] status = 429 -> "http429"
      [] status = 500 -> "http500"
      [] OTHER -> "http503"

Invoke(op, m, input, seq) ==
    CASE op = "_single_request" -> SingleRequest(m, input, seq)
      [] op = "requests.get" ->
            IF input.kind = "response"
            THEN [monitor |-> m, ret |-> Return("Response"), cls |-> "ok"]
            ELSE [monitor |-> m,
                  ret |-> Raise(Raised("RequestException", "requests.get", seq)),
                  cls |-> "RequestException"]
      [] OTHER ->
            IF input.kind = "return"
            THEN [monitor |-> m, ret |-> Return("value"), cls |-> "ok"]
            ELSE IF input.kind = "HTTPException"
            THEN [monitor |-> m,
                  ret |-> Raise(HTTPException(input.status, "func", seq)),
                  cls |-> StatusName(input.status)]
            ELSE [monitor |-> m,
                  ret |-> Raise(Raised(input.kind, "func", seq)),
                  cls |-> input.kind]

UpstreamStatus(op, input) ==
    IF op = "_single_request" THEN input.resp.status_code ELSE 0

(***************************************************************************)
(* The call stack.                                                         *)
(***************************************************************************)
Frame(fn, op, use_browser, seq, retries0) ==
    [seq |-> seq, attempt |-> 0, op |-> op, fn |-> fn,
     use_browser |-> use_browser, retries0 |-> retries0, stage |-> "start",
     last_exception |-> NoError, http_error |-> NoError, outs |-> <<>>]

Top == stack[Len(stack)]

Pop == SubSeq(stack, 1, Len(stack) - 1)

ReplaceTop(fr) == [stack EXCEPT ![Len(stack)] = fr]

Running(fn) == stack # <<>> /\ Top.fn = fn

\* make_request(): execute_with_retry(_single_request)
MakeRequestFrame(seq) ==
    Frame("execute_with_retry", "_single_request", FALSE, seq, monitor.retries_performed)

NoHist ==
    [entry |-> "", gets |-> 0, plain_gets |-> 0, browsers |-> 0,
     browser_failures |-> 0, mr_seq |-> 0, last_cls |-> "", last_exc |-> NoError,
     last_upstream |-> 0, requests_before |-> 0, blocks_before |-> 0,
     first_error |-> NoError]

NoFinished ==
    [seq |-> 0, op |-> "", outs |-> <<>>, invocations |-> 0, retries |-> 0,
     result |-> NoRet]

(***************************************************************************)
(* Actions of the request layer.                                           *)
(***************************************************************************)
SessionVars == <<sessions, clock, next_session, last_get>>

Idle == stack = <<>>

StartCall(entry, frame, mr_seq) ==
    /\ Idle
    /\ calls = 0
    /\ calls' = calls + 1
    /\ stack' = <<frame>>
    /\ ret' = NoRet
    /\ hist' = [NoHist EXCEPT !.entry = entry, !.mr_seq = mr_seq]
    /\ finished' = NoFinished
    /\ UNCHANGED <<monitor, ENABLE_BROWSER_SCRAPING, SessionVars, ExtVars>>

\* a caller invokes _retry_manager.execute_with_retry(func) on some operation
CallExecuteWithRetry ==
    StartCall("execute_with_retry",
              Frame("execute_with_retry", "func", FALSE, 1, monitor.retries_performed), 0)

CallMakeRequest ==
    StartCall("make_request", MakeRequestFrame(1), 1)

\* use_browser: None (take the setting), True or False
CallMakeRequestWithBrowserFallback ==
    \E use_browser \in {"None", "True", "False"} :
        StartCall("make_request_with_browser_fallback",
                  Frame("make_request_with_browser_fallback", "",
                        IF use_browser = "None" THEN ENABLE_BROWSER_SCRAPING
                        ELSE use_browser = "True",
                        0, 0), 0)

CallRequestUrlBsoup ==
    StartCall("request_url_bsoup", Frame("request_url_bsoup", "", FALSE, 0, 0), 0)

CallRequestUrlPage ==
    StartCall("request_url_page", Frame("request_url_page", "", FALSE, 0, 0), 0)

\* one iteration of the loop of execute_with_retry, lines 566-593
ExecuteWithRetry ==
    /\ Running("execute_with_retry")
    /\ \E input \in InputsOf(Top.op) :
        LET f    == Top
            a    == f.attempt
            m1   == IF a > 0 THEN RecordRetry(monitor) ELSE monitor
            gs   == GetSession(sessions, m1, next_session, NoKey, clock, clock, clock)
            m2   == IF f.op = "requests.get" THEN gs.monitor ELSE m1
            r    == Invoke(f.op, m2, input, f.seq)
            d    == IF r.ret.kind = "return" THEN "return"
                    ELSE RetryDecision(r.ret.exc, a)
            outs == Append(f.outs, r.cls)
            goes_on == d = "continue" /\ a + 1 < max_attempts
            \* a 'continue' in the last iteration ends the loop: the function
            \* falls off its end and returns None
            result == IF d = "continue" THEN Return("None") ELSE r.ret
        IN  /\ monitor' = r.monitor
            /\ IF f.op = "requests.get"
               THEN /\ sessions' = gs.sessions
                    /\ next_session' = gs.next_session
                    /\ last_get' =
                         [key |-> gs.key, now |-> gs.now, t1 |-> clock,
                          session |-> gs.session, created |-> gs.created, inserted |-> gs.inserted,
                          n |-> last_get.n + 1, before |-> sessions,
                          prev_key |-> last_get.key, prev_session |-> last_get.session]
               ELSE UNCHANGED <<sessions, next_session, last_get>>
            /\ hist' = [hist EXCEPT
                          !.gets = IF f.op = "_single_request" THEN @ + 1 ELSE @,
                          !.plain_gets = IF f.op = "requests.get" THEN @ + 1 ELSE @,
                          !.last_cls = IF f.op = "_single_request" THEN r.cls ELSE @,
                          !.last_exc = IF f.op = "_single_request" THEN r.ret.exc ELSE @,
                          !.last_upstream = IF f.op = "_single_request"
                                            THEN UpstreamStatus(f.op, input) ELSE @,
                          !.requests_before = IF f.op = "_single_request"
                                              THEN monitor.requests_total ELSE @,
                          !.blocks_before = IF f.op = "_single_request"
                                            THEN monitor.blocks_detected ELSE @,
                          !.first_error = IF /\ f.op = "_single_request"
                                             /\ f.seq = 1
                                             /\ ~goes_on
                                             /\ result.kind = "raise"
                                          THEN result.exc ELSE @]
            /\ IF goes_on
               THEN /\ stack' = ReplaceTop([f EXCEPT !.attempt = a + 1,
                                                     !.last_exception = r.ret.exc,
                                                     !.outs = outs])
                    /\ ret' = NoRet
                    /\ UNCHANGED finished
               ELSE /\ stack' = Pop
                    /\ ret' = result
                    /\ finished' =
                         [seq |-> f.seq, op |-> f.op, outs |-> outs,
                          invocations |-> a + 1,
                          retries |-> r.monitor.retries_performed - f.retries0,
                          result |-> result]
    /\ UNCHANGED <<clock, ENABLE_BROWSER_SCRAPING, calls, ExtVars>>

\* a caller frame moves to `stage` and calls make_request()
CallsMakeRequest(stage) ==
    /\ stack' = Append(ReplaceTop([Top EXCEPT !.stage = stage]),
                       MakeRequestFrame(hist.mr_seq + 1))
    /\ hist' = [hist EXCEPT !.mr_seq = @ + 1, !.last_cls = "", !.last_exc = NoError,
                            !.last_upstream = 0]
    /\ finished' = NoFinished
    /\ ret' = NoRet

\* a caller frame keeps http_error, moves to `stage` and calls `callee`
CallsFallback(stage, http_error, callee) ==
    /\ stack' = Append(ReplaceTop([Top EXCEPT !.stage = stage,
                                              !.http_error = http_error]),
                       callee)
    /\ ret' = NoRet

Returns(result) ==
    /\ stack' = Pop
    /\ ret' = result

\* which exception each failed fallback lets out: `raise http_error`
BrowserFallbackRaises(http_error, browser_error) == http_error

BsoupFallbackRaises(http_error, fallback_error) == http_error

PageFallbackRaises_FallbackError(http_error, fallback_error) == fallback_error

PageFallbackRaises(http_error, fallback_error) == http_error

\* make_request_with_browser_fallback, lines 715-753
MakeRequestWithBrowserFallback ==
    /\ Running("make_request_with_browser_fallback")
    /\ \/ /\ Top.stage = "start"
          /\ CallsMakeRequest("http")
          /\ UNCHANGED monitor
       \/ /\ Top.stage = "http"
          /\ ret.kind = "return"
          /\ Returns(ret)
          /\ UNCHANGED <<monitor, hist, finished>>
       \/ /\ Top.stage = "http"
          /\ ret.kind = "raise"
          /\ IF ~Top.use_browser
             THEN Returns(Raise(ret.exc))
             ELSE CallsFallback("browser", ret.exc,
                                Frame("scrape_with_fallback", "", FALSE, 0, 0))
          /\ UNCHANGED <<monitor, hist, finished>>
       \/ /\ Top.stage = "browser"
          /\ ret.kind = "return"
          /\ monitor' = RecordBrowserRequest(monitor, TRUE)
          /\ Returns(Return("MockResponse"))
          /\ UNCHANGED <<hist, finished>>
       \/ /\ Top.stage = "browser"
          /\ ret.kind = "raise"
          /\ monitor' = RecordBrowserRequest(monitor, FALSE)
          /\ Returns(Raise(BrowserFallbackRaises(Top.http_error, ret.exc)))
          /\ hist' = [hist EXCEPT !.browser_failures = @ + 1]
          /\ UNCHANGED finished
    /\ UNCHANGED <<ENABLE_BROWSER_SCRAPING, calls, SessionVars, ExtVars>>

\* PlaywrightBrowserScraper.scrape_with_fallback, lines 515-524; the rendering
\* (scrape_with_browser) either returns the page content or raises
ScrapeWithFallback ==
    /\ Running("scrape_with_fallback")
    /\ \/ /\ Top.stage = "start"
          /\ \E rendered \in BOOLEAN :
                IF rendered
                THEN Returns(Return("content"))
                ELSE /\ stack' = Append(ReplaceTop([Top EXCEPT !.stage = "http"]),
                                        Frame("execute_with_retry", "requests.get",
                                              FALSE, 0, monitor.retries_performed))
                     /\ ret' = NoRet
          /\ hist' = [hist EXCEPT !.browsers = @ + 1]
          /\ finished' = NoFinished
       \/ /\ Top.stage = "http"
          /\ ret.kind = "return"
          /\ Returns(IF ret.val = "None"
                     THEN Raise(Raised("Exception", "scrape_with_fallback", 0))
                     ELSE Return("text"))
          /\ UNCHANGED <<hist, finished>>
       \/ /\ Top.stage = "http"
          /\ ret.kind = "raise"
          /\ Returns(ret)
          /\ UNCHANGED <<hist, finished>>
    /\ UNCHANGED <<monitor, ENABLE_BROWSER_SCRAPING, calls, SessionVars, ExtVars>>

\* request_url_bsoup, lines 887-900
RequestUrlBsoup ==
    /\ Running("request_url_bsoup")
    /\ \/ /\ Top.stage = "start"
          /\ CallsMakeRequest("http")
       \/ /\ Top.stage \in {"http", "fallback"}
          /\ ret.kind = "return"
          /\ Returns(Return("bsoup"))
          /\ UNCHANGED <<hist, finished>>
       \/ /\ Top.stage = "http"
          /\ ret.kind = "raise"
          /\ CallsFallback("fallback", ret.exc,
                           Frame("make_request_with_browser_fallback", "", TRUE, 0, 0))
          /\ UNCHANGED <<hist, finished>>
       \/ /\ Top.stage = "fallback"
          /\ ret.kind = "raise"
          /\ Returns(Raise(BsoupFallbackRaises(Top.http_error, ret.exc)))
          /\ UNCHANGED <<hist, finished>>
    /\ UNCHANGED <<monitor, ENABLE_BROWSER_SCRAPING, calls, SessionVars, ExtVars>>

\* convert_bsoup_to_page, lines 916-921: etree.HTML gives a tree or None
ConvertBsoupToPage(parsed) ==
    IF parsed
    THEN Return("page")
    ELSE Raise(HTTPException(500, "convert_bsoup_to_page", 0))

\* request_url_page, lines 935-946
RequestUrlPage ==
    /\ Running("request_url_page")
    /\ \/ /\ Top.stage = "start"
          /\ stack' = Append(ReplaceTop([Top EXCEPT !.stage = "bsoup"]),
                             Frame("request_url_bsoup", "", FALSE, 0, 0))
          /\ ret' = NoRet
       \/ /\ Top.stage \in {"bsoup", "fallback"}
          /\ ret.kind = "return"
          /\ \E parsed \in BOOLEAN : Returns(ConvertBsoupToPage(parsed))
       \/ /\ Top.stage = "bsoup"
          /\ ret.kind = "raise"
          /\ CallsFallback("fallback", ret.exc,
                           Frame("make_request_with_browser_fallback", "", TRUE, 0, 0))
       \/ /\ Top.stage = "fallback"
          /\ ret.kind = "raise"
          /\ Returns(Raise(PageFallbackRaises(Top.http_error, ret.exc)))
    /\ UNCHANGED <<monitor, ENABLE_BROWSER_SCRAPING, calls, hist, finished, SessionVars, ExtVars>>

(***************************************************************************)
(* Actions of the session manager used on its own.                         *)
(***************************************************************************)
RequestVars == <<ENABLE_BROWSER_SCRAPING, stack, ret, calls, hist, finished>>

\* time passes between two calls
Tick ==
    /\ clock < MaxClock
    /\ clock' = clock + 1
    /\ UNCHANGED <<monitor, sessions, next_session, last_get, RequestVars, ExtVars>>

\* _session_manager.get_session(session_id); the clock may advance between
\* the reads of time.time() inside the call
GetSessionCall ==
    /\ last_get.n < MaxGetCalls
    /\ \E session_id \in 0..NumKeys, d2 \in 0..1, d3 \in 0..1 :
        LET t1 == clock
            t2 == t1 + d2
            t3 == t2 + d3
            gs == GetSession(sessions, monitor, next_session, session_id, t1, t2, t3)
        IN  /\ t3 <= MaxClock
            /\ sessions' = gs.sessions
            /\ monitor' = gs.monitor
            /\ next_session' = gs.next_session
            /\ clock' = gs.now
            /\ last_get' =
                 [key |-> gs.key, now |-> gs.now, t1 |-> t1,
                  session |-> gs.session, created |-> gs.created, inserted |-> gs.inserted,
                  n |-> last_get.n + 1, before |-> sessions,
                  prev_key |-> last_get.key, prev_session |-> last_get.session]
    /\ UNCHANGED <<RequestVars, ExtVars>>

(***************************************************************************)
(* Worker threads.  The endpoints are plain functions, which the server    *)
(* runs on a thread pool; _session_manager and _monitor are module-level   *)
(* objects used by all of them, and base.py takes no lock.  A thread may   *)
(* be switched out between any two operations on the shared dict or the    *)
(* shared counters; operations on a thread's own locals are merged into    *)
(* the preceding shared step.                                              *)
(***************************************************************************)
NoCheck == [response |-> NoResponse, blocked |-> FALSE, done |-> FALSE]

NoBrowser == 0

NoPlaywright ==
    [pc |-> "idle", wait_for_selector |-> FALSE, browser |-> NoBrowser, open |-> {},
     launched |-> 0, pending |-> "", swallowed |-> 0, returned |-> <<>>]

NoAssembly ==
    [fn |-> "", done |-> FALSE, page |-> <<>>, raw |-> <<>>, lists |-> <<>>,
     records |-> <<>>, error |-> "",
     message |-> [ids |-> 0, names |-> 0, url |-> FALSE],
     log |-> <<>>]

NumThreads == 2

Threads == 1..NumThreads

IdleThread ==
    [key |-> NoKey, session |-> NoSession, op |-> "", pc |-> "idle", error |-> "",
     expired |-> <<>>, oldest |-> NoKey, with |-> {}, fresh |-> FALSE,
     started |-> 0, todo |-> <<>>, reg |-> 0]

Active(th) == th.pc \notin {"idle", "done", "raised"}

SetThread(t, th) == threads' = [threads EXCEPT ![t] = th]

\* the table after `del self.sessions[key]`
DelItem(tbl, key) == SelectSeq(tbl, LAMBDA data : data.id # key)

\* the keys the comprehension of _cleanup_expired_sessions collects
ExpiredKeys(tbl, current_time) ==
    LET old == SelectSeq(tbl, LAMBDA data : current_time - data.created_at > session_timeout)
    IN  [i \in DOMAIN old |-> old[i].id]

\* the table left by n earlier calls get_session(1), ..., get_session(n) at time 0
SessionsAfter(n) == [i \in 1..n |-> [id |-> i, created_at |-> 0, session |-> i]]

\* get_session entered: the uuid default, then the scan of
\* _cleanup_expired_sessions at current_time
GetSessionEnter(t) ==
    /\ threads[t].pc = "idle"
    /\ \E session_id \in 0..NumKeys :
        LET key == IF session_id = NoKey THEN UuidBase + t ELSE session_id
        IN  SetThread(t, [threads[t] EXCEPT
                !.pc = "purge", !.op = "get_session", !.key = key,
                !.expired = ExpiredKeys(sessions, clock),
                !.with = {u \in Threads : Active(threads[u])},
                !.fresh = ~HasKey(sessions, key), !.started = clock])
    /\ UNCHANGED <<monitor, sessions, clock, next_session, last_get, RequestVars, PureVars>>

\* for session_id in expired_sessions: del self.sessions[session_id]
GetSessionPurge(t) ==
    /\ threads[t].pc = "purge"
    /\ IF threads[t].expired = <<>>
       THEN /\ SetThread(t, [threads[t] EXCEPT !.pc = "lookup"])
            /\ UNCHANGED sessions
       ELSE LET k == Head(threads[t].expired)
            IN  IF HasKey(sessions, k)
                THEN /\ sessions' = DelItem(sessions, k)
                     /\ SetThread(t, [threads[t] EXCEPT !.expired = Tail(@)])
                ELSE /\ SetThread(t, [threads[t] EXCEPT !.pc = "raised", !.error = "KeyError"])
                     /\ UNCHANGED sessions
    /\ UNCHANGED <<monitor, clock, next_session, last_get, RequestVars, PureVars>>

\* if session_id in self.sessions
GetSessionTest(t) ==
    /\ threads[t].pc = "lookup"
    /\ SetThread(t, [threads[t] EXCEPT
           !.pc = IF HasKey(sessions, threads[t].key) THEN "read" ELSE "create"])
    /\ UNCHANGED <<monitor, sessions, clock, next_session, last_get, RequestVars, PureVars>>

\* session_data = self.sessions[session_id], then the expiry test on it
GetSessionRead(t) ==
    /\ threads[t].pc = "read"
    /\ IF ~HasKey(sessions, threads[t].key)
       THEN SetThread(t, [threads[t] EXCEPT !.pc = "raised", !.error = "KeyError"])
       ELSE LET session_data == Lookup(sessions, threads[t].key)
            IN  IF ~IsSessionExpired(session_data, clock)
                THEN SetThread(t, [threads[t] EXCEPT
                         !.pc = "done", !.session = session_data.session])
                ELSE SetThread(t, [threads[t] EXCEPT !.pc = "create"])
    /\ UNCHANGED <<monitor, sessions, clock, next_session, last_get, RequestVars, PureVars>>

\* session = self._create_session(); self.sessions[session_id] = {...}
GetSessionInsert(t) ==
    /\ threads[t].pc = "create"
    /\ sessions' = SetItem(sessions, [id |-> threads[t].key, created_at |-> clock,
                                      session |-> next_session])
    /\ next_session' = next_session + 1
    /\ SetThread(t, [threads[t] EXCEPT !.pc = "record", !.session = next_session])
    /\ UNCHANGED <<monitor, clock, last_get, RequestVars, PureVars>>

\* _monitor.record_session_created()
GetSessionRecord(t) ==
    /\ threads[t].pc = "record"
    /\ monitor' = RecordSessionCreated(monitor)
    /\ SetThread(t, [threads[t] EXCEPT !.pc = "limit"])
    /\ UNCHANGED <<sessions, clock, next_session, last_get, RequestVars, PureVars>>

\* if len(self.sessions) > self.max_sessions
GetSessionLimit(t) ==
    /\ threads[t].pc = "limit"
    /\ SetThread(t, [threads[t] EXCEPT
           !.pc = IF Len(sessions) > max_sessions THEN "oldest" ELSE "done"])
    /\ UNCHANGED <<monitor, sessions, clock, next_session, last_get, RequestVars, PureVars>>

\* _cleanup_oldest_session: the emptiness test and min(self.sessions.items(), ...)
GetSessionOldest(t) ==
    /\ threads[t].pc = "oldest"
    /\ IF sessions = <<>>
       THEN SetThread(t, [threads[t] EXCEPT !.pc = "done"])
       ELSE SetThread(t, [threads[t] EXCEPT
                !.pc = "evict", !.oldest = sessions[OldestIndex(sessions)].id])
    /\ UNCHANGED <<monitor, sessions, clock, next_session, last_get, RequestVars, PureVars>>

\* del self.sessions[oldest_session[0]]
GetSessionEvict(t) ==
    /\ threads[t].pc = "evict"
    /\ IF HasKey(sessions, threads[t].oldest)
       THEN /\ sessions' = DelItem(sessions, threads[t].oldest)
            /\ SetThread(t, [threads[t] EXCEPT !.pc = "done"])
       ELSE /\ SetThread(t, [threads[t] EXCEPT !.pc = "raised", !.error = "KeyError"])
            /\ UNCHANGED sessions
    /\ UNCHANGED <<monitor, clock, next_session, last_get, RequestVars, PureVars>>

\* the counters a call of the monitor increments, in program order
CountersOf(op, success, was_blocked) ==
    IF op = "record_request"
    THEN <<"requests_total">>
         \o (IF success THEN <<"requests_successful">> ELSE <<"requests_failed">>)
         \o (IF was_blocked THEN <<"blocks_detected">> ELSE <<>>)
    ELSE IF op = "record_retry" THEN <<"retries_performed">>
    ELSE <<"sessions_created">>

\* a thread calls record_request, record_retry or record_session_created
MonitorEnter(t) ==
    /\ threads[t].pc = "idle"
    /\ \E op \in {"record_request", "record_retry", "record_session_created"},
          success \in BOOLEAN, was_blocked \in BOOLEAN :
        /\ op # "record_request" => success /\ ~was_blocked
        /\ SetThread(t, [threads[t] EXCEPT
               !.pc = "load", !.op = op,
               !.with = {u \in Threads : Active(threads[u])},
               !.todo = CountersOf(op, success, was_blocked)])
    /\ UNCHANGED <<monitor, SessionVars, RequestVars, PureVars>>

\* self.<counter> += 1: the read of the attribute
MonitorLoad(t) ==
    /\ threads[t].pc = "load"
    /\ SetThread(t, [threads[t] EXCEPT !.pc = "store", !.reg = monitor[Head(threads[t].todo)]])
    /\ UNCHANGED <<monitor, SessionVars, RequestVars, PureVars>>

\* self.<counter> += 1: the addition and the write of the attribute
MonitorStore(t) ==
    /\ threads[t].pc = "store"
    /\ monitor' = [monitor EXCEPT ![Head(threads[t].todo)] = threads[t].reg + 1]
    /\ SetThread(t, [threads[t] EXCEPT
           !.todo = Tail(@), !.reg = 0,
           !.pc = IF Tail(threads[t].todo) = <<>> THEN "done" ELSE "load"])
    /\ UNCHANGED <<SessionVars, RequestVars, PureVars>>

(***************************************************************************)
(* RetryManager.execute_with_retry and execute_with_retry_async run on the *)
(* same sequence of outcomes of the wrapped operation.                     *)
(***************************************************************************)
NoRun == [monitor |-> MonitorInit, ret |-> NoRet, invocations |-> 0]

NoRuns == [done |-> FALSE, outcomes |-> <<>>, sync |-> NoRun, async |-> NoRun]

\* the loop of execute_with_retry from iteration `attempt` on
RECURSIVE ExecuteWithRetryFrom(_, _, _)
ExecuteWithRetryFrom(outcomes, attempt, m) ==
    IF attempt = max_attempts
    THEN [monitor |-> m, ret |-> Return("None"), invocations |-> attempt]
    ELSE LET m1 == IF attempt > 0 THEN RecordRetry(m) ELSE m
             r  == Invoke("func", m1, outcomes[attempt + 1], attempt + 1)
             d  == IF r.ret.kind = "return" THEN "return"
                   ELSE RetryDecision(r.ret.exc, attempt)
         IN  IF d = "continue"
             THEN ExecuteWithRetryFrom(outcomes, attempt + 1, r.monitor)
             ELSE [monitor |-> r.monitor, ret |-> r.ret, invocations |-> attempt + 1]

\* the loop of execute_with_retry_async from iteration `attempt` on
RECURSIVE ExecuteWithRetryAsyncFrom(_, _, _)
ExecuteWithRetryAsyncFrom(outcomes, attempt, m) ==
    IF attempt = max_attempts
    THEN [monitor |-> m, ret |-> Return("None"), invocations |-> attempt]
    ELSE LET r  == Invoke("func", m, outcomes[attempt + 1], attempt + 1)
             d  == IF r.ret.kind = "return" THEN "return"
                   ELSE RetryDecision(r.ret.exc, attempt)
         IN  IF d = "continue"
             THEN ExecuteWithRetryAsyncFrom(outcomes, attempt + 1, r.monitor)
             ELSE [monitor |-> r.monitor, ret |-> r.ret, invocations |-> attempt + 1]

\* outcome sequences of the wrapped operation, one outcome per possible invocation
OutcomeSeqs == [1..max_attempts -> FuncInputs]

RunBothRetryLoops ==
    /\ ~retry_runs.done
    /\ retry_runs' = [retry_runs EXCEPT
          !.done = TRUE,
          !.sync = ExecuteWithRetryFrom(retry_runs.outcomes, 0, monitor),
          !.async = ExecuteWithRetryAsyncFrom(retry_runs.outcomes, 0, monitor)]
    /\ UNCHANGED <<monitor, SessionVars, RequestVars, threads,
                   block_check, playwright, assembly, extract, clubs_call, seasons_call>>

(***************************************************************************)
(* _detect_block applied to one response.  "recaptcha" and "hcaptcha"      *)
(* contain "captcha", so a text with one of them has the latter too.       *)
(***************************************************************************)
CheckedStatuses == {200, 301, 400, 403, 404, 429, 500, 503}

CheckedLengths == {0, 200, 500, 999, 1000, 2000, 5000, 5001, 6000}

CheckedResponses ==
    { r \in [status_code : CheckedStatuses, captcha : BOOLEAN, recaptcha : BOOLEAN,
             hcaptcha : BOOLEAN, len : CheckedLengths, transfermarkt : BOOLEAN,
             block_phrase : BOOLEAN, solve_or_verify : BOOLEAN] :
        /\ (r.recaptcha \/ r.hcaptcha) => r.captcha
        /\ r.len = 0 => ~(r.captcha \/ r.transfermarkt \/ r.block_phrase \/ r.solve_or_verify) }

DetectBlockCall ==
    /\ ~block_check.done
    /\ block_check' = [block_check EXCEPT
          !.done = TRUE, !.blocked = DetectBlock(block_check.response)]
    /\ UNCHANGED <<monitor, SessionVars, RequestVars, threads,
                   retry_runs, playwright, assembly, extract, clubs_call, seasons_call>>

(***************************************************************************)
(* PlaywrightBrowserScraper.scrape_with_browser.  Every awaited browser    *)
(* operation either completes or raises; `pending` is the exception on its *)
(* way out through the finally clause.  Browsers are numbered in the order *)
(* of their launch.                                                        *)
(***************************************************************************)
MaxBrowserCalls == 2

\* the open browsers after the finally clause of a call that launched `browser`
BrowserClose_OnSuccessOnly(open, browser, pending) ==
    IF pending = "" THEN open \ {browser} ELSE open

BrowserClose(open, browser, pending) == open \ {browser}

PlaywrightStep(pc, pending) ==
    playwright' = [playwright EXCEPT !.pc = pc, !.pending = pending]

OtherThanPlaywright ==
    <<monitor, SessionVars, RequestVars, threads, retry_runs, block_check, assembly,
      extract, clubs_call, seasons_call>>

\* browser = await p.chromium.launch(...)
ScrapeLaunch ==
    /\ playwright.pc = "idle"
    /\ Len(playwright.returned) < MaxBrowserCalls
    /\ \E wait_for_selector \in BOOLEAN, ok \in BOOLEAN :
        IF ok
        THEN playwright' = [playwright EXCEPT
                 !.pc = "new_context", !.wait_for_selector = wait_for_selector,
                 !.browser = playwright.launched + 1,
                 !.open = @ \cup {playwright.launched + 1},
                 !.launched = @ + 1, !.pending = "", !.swallowed = 0]
        ELSE playwright' = [playwright EXCEPT
                 !.wait_for_selector = wait_for_selector, !.browser = NoBrowser,
                 !.swallowed = 0,
                 !.returned = Append(@, [result |-> "raise", browser |-> NoBrowser,
                                         open |-> playwright.open, at |-> "launch"])]
    /\ UNCHANGED OtherThanPlaywright

\* new_context, _add_stealth_measures, new_page, set_extra_http_headers
ScrapeNewContext ==
    /\ playwright.pc = "new_context"
    /\ \/ PlaywrightStep("goto", "")
       \/ PlaywrightStep("finally", "new_context")
    /\ UNCHANGED OtherThanPlaywright

\* await page.goto(url, wait_until="domcontentloaded")
ScrapeGoto ==
    /\ playwright.pc = "goto"
    /\ \/ PlaywrightStep("behavior", "")
       \/ PlaywrightStep("finally", "goto")
    /\ UNCHANGED OtherThanPlaywright

\* the sleep, and _simulate_human_behavior when the setting asks for it
ScrapeBehavior ==
    /\ playwright.pc = "behavior"
    /\ \E ENABLE_BEHAVIORAL_SIMULATION \in BOOLEAN, ok \in BOOLEAN :
        IF ENABLE_BEHAVIORAL_SIMULATION /\ ~ok
        THEN PlaywrightStep("finally", "behavior")
        ELSE PlaywrightStep(IF playwright.wait_for_selector THEN "selector"
                            ELSE "networkidle", "")
    /\ UNCHANGED OtherThanPlaywright

\* wait_for_selector inside try / except Exception: pass
ScrapeWaitForSelector ==
    /\ playwright.pc = "selector"
    /\ \E ok \in BOOLEAN :
        playwright' = [playwright EXCEPT
            !.pc = "networkidle", !.swallowed = IF ok THEN @ ELSE @ + 1]
    /\ UNCHANGED OtherThanPlaywright

\* wait_for_load_state("networkidle") inside try / except Exception: pass
ScrapeWaitNetworkIdle ==
    /\ playwright.pc = "networkidle"
    /\ \E ok \in BOOLEAN :
        playwright' = [playwright EXCEPT
            !.pc = "content", !.swallowed = IF ok THEN @ ELSE @ + 1]
    /\ UNCHANGED OtherThanPlaywright

\* content = await page.content(); return content
ScrapeContent ==
    /\ playwright.pc = "content"
    /\ \/ PlaywrightStep("finally", "")
       \/ PlaywrightStep("finally", "content")
    /\ UNCHANGED OtherThanPlaywright

\* finally: await browser.close(); then the call returns or raises
ScrapeFinally ==
    /\ playwright.pc = "finally"
    /\ LET open == BrowserClose(playwright.open, playwright.browser, playwright.pending)
       IN  playwright' = [playwright EXCEPT
               !.pc = "idle", !.open = open,
               !.returned = Append(@,
                   [result |-> IF playwright.pending = "" THEN "return" ELSE "raise",
                    browser |-> playwright.browser,
                    open |-> open, at |-> playwright.pending])]
    /\ UNCHANGED OtherThanPlaywright

(***************************************************************************)
(* Record assembly (services/clubs/players.py, competitions/search.py,     *)
(* competitions/clubs.py).  The list a selector extracts is known by its   *)
(* length: its i-th entry is the value i.  A permalink is the number of    *)
(* the entity it names, and extract_from_url gives that number.            *)
(***************************************************************************)
MaxRows == 3

\* the permalinks a roster page may repeat
Links == {1, 2}

\* Python None, "" and [] as entries of a list
None == -1

EmptyString == 0

EmptyList == -2

Min(a, b) == IF a <= b THEN a ELSE b

Extracted(k) == [i \in 1..k |-> i]

Repeat(value, n) == [i \in 1..n |-> value]

SeqsUpTo(S, n) == UNION {[1..k -> S] : k \in 0..n}

\* lengths of the lists named in `fields`: base_length for all but at most two
LengthsNear(fields, base_length) ==
    { [f \in fields |-> IF f = a THEN la ELSE IF f = b THEN lb ELSE base_length] :
        a \in fields, b \in fields, la \in 0..(MaxRows + 1), lb \in 0..(MaxRows + 1) }

\* the members of a set of row numbers in table order
InOrder(S) ==
    [i \in 1..Cardinality(S) |-> CHOOSE x \in S : Cardinality({y \in S : y < x}) = i - 1]

\* what a selector may extract from a table whose rows 1..n hold a permalink:
\* each entry is the number of the row it comes from.  One entry from each of
\* the first k rows, or one entry from each of some of the rows 1..n (the
\* others lack the sub-element)
Columns(n) ==
    {Extracted(k) : k \in 0..(MaxRows + 1)} \cup {InOrder(S) : S \in SUBSET (1..n)}

\* the lists named in `fields`: one entry per row for all but at most two
ColumnsNear(fields, n) ==
    { [f \in fields |-> IF f = a THEN ca ELSE IF f = b THEN cb ELSE Extracted(n)] :
        a \in fields, b \in fields, ca \in Columns(n), cb \in Columns(n) }

\* the lists named in `fields`: one entry per row for all but at most one
ColumnsNext(fields, n) ==
    { [f \in fields |-> IF f = a THEN ca ELSE Extracted(n)] :
        a \in fields, ca \in {Extracted(k) : k \in 0..(MaxRows + 1)} }

\* if len(lst) != base_length: lst = (lst + [neutral] * base_length)[:base_length]
Align_PadOnly(lst, neutral, base_length) ==
    lst \o Repeat(neutral, base_length - Len(lst))

Align(lst, neutral, base_length) ==
    IF Len(lst) # base_length
    THEN SubSeq(lst \o Repeat(neutral, base_length), 1, base_length)
    ELSE lst

\* pad_list of __parse_search_results
pad_list(lst, length) ==
    IF Len(lst) = length THEN lst ELSE lst \o Repeat(None, length - Len(lst))

\* the length of zip(...): that of the shortest list
ZipLength(lists) ==
    LET lens == {Len(lists[f]) : f \in DOMAIN lists}
    IN  CHOOSE n \in lens : \A m \in lens : n <= m

\* safe_regex(dob_age, REGEX_DOB, group): one value per entry, None for None
SafeRegex(dob_age, group) == IF dob_age = None THEN None ELSE dob_age

PlayerFields ==
    {"names", "positions", "dob_age", "nationalities", "current_club", "heights",
     "foots", "joined_on", "infos", "signed_from", "contracts", "market_values"}

\* a row of all_player_rows: the permalink in it and whether its cells 4 and 5
\* hold text
PlayerRows == [url : Links, filled : BOOLEAN]

\* NAMES and URLS select inside the cells that PAGE_INFOS selects
\* (td[@class='posrela']): a page without such a cell has neither
InWrapperCell(cols, urls) ==
    Len(cols.infos) = 0 => (Len(urls) = 0 /\ Len(cols.names) = 0)

\* club rosters with up to two lists off the canonical count or with gaps;
\* national-team rosters with one list off the canonical count;
\* national-team rosters with repeated permalinks and rows; rosters without
\* a wrapper cell whose rows list players
ClubPlayersPages ==
    UNION { [cols : {c \in ColumnsNear(PlayerFields, n) : InWrapperCell(c, Extracted(n))},
             urls : {Extracted(n)},
             rows : {<<>>},
             is_national_team : {"False", "None"}, past : BOOLEAN]
            \cup
            [cols : {c \in ColumnsNext(PlayerFields, n) : InWrapperCell(c, Extracted(n))},
             urls : {Extracted(n)},
             rows : {<<>>},
             is_national_team : {"True"}, past : BOOLEAN]
            : n \in 0..MaxRows }
    \cup
    UNION { [cols : {[f \in PlayerFields |-> Extracted(Len(urls))]}, urls : {urls},
             rows : SeqsUpTo(PlayerRows, MaxRows),
             is_national_team : {"True"}, past : BOOLEAN]
            : urls \in SeqsUpTo(Links, MaxRows) }
    \cup
    UNION { [cols : {[f \in PlayerFields |->
                        IF f \in {"infos", "names"} THEN <<>> ELSE Extracted(Len(rows))]},
             urls : {<<>>},
             rows : {rows},
             is_national_team : {"None"}, past : BOOLEAN]
            : rows \in SeqsUpTo(PlayerRows, MaxRows) \ {<<>>} }

\* the national-team loop: for each url the first row holding it, else None
FirstRow(rows, url) ==
    IF \E j \in DOMAIN rows : rows[j].url = url
    THEN CHOOSE j \in DOMAIN rows :
            /\ rows[j].url = url
            /\ \A k \in DOMAIN rows : rows[k].url = url => j <= k
    ELSE 0

RowValues(rows, urls) ==
    [i \in DOMAIN urls |->
        LET j == FirstRow(rows, urls[i])
        IN  IF j = 0 THEN None ELSE IF rows[j].filled THEN j ELSE None]

IsNationalTeam(pg) ==
    IF pg.is_national_team # "None"
    THEN pg.is_national_team = "True"
    ELSE Len(pg.cols.infos) = 0 /\ Len(pg.cols.names) > 0

\* the lists of __parse_club_players before the alignment to base_length
ClubPlayersRaw(pg) ==
    LET base_length == Len(pg.urls)
        national    == IsNationalTeam(pg)
        dobs_raw    == IF national THEN RowValues(pg.rows, pg.urls)
                       ELSE pg.cols.dob_age
    IN  [id |-> pg.urls,
         status |-> pg.cols.infos,
         name |-> pg.cols.names,
         position |-> IF national THEN RowValues(pg.rows, pg.urls)
                      ELSE pg.cols.positions,
         dateOfBirth |-> [i \in DOMAIN dobs_raw |-> SafeRegex(dobs_raw[i], "dob")],
         age |-> [i \in DOMAIN dobs_raw |-> SafeRegex(dobs_raw[i], "age")],
         nationality |-> pg.cols.nationalities,
         currentClub |-> IF pg.past THEN pg.cols.current_club
                         ELSE Repeat(None, base_length),
         height |-> pg.cols.heights,
         foot |-> pg.cols.foots,
         joinedOn |-> pg.cols.joined_on,
         joined |-> pg.cols.infos,
         signedFrom |-> pg.cols.signed_from,
         contract |-> IF pg.past THEN Repeat(None, base_length)
                      ELSE pg.cols.contracts,
         marketValue |-> pg.cols.market_values]

\* the neutral value each aligned list is padded with
PlayerNeutral ==
    [status |-> None, name |-> EmptyString, nationality |-> EmptyList,
     currentClub |-> None, height |-> None, foot |-> None, joinedOn |-> EmptyString,
     joined |-> EmptyString, signedFrom |-> EmptyString, contract |-> None,
     marketValue |-> None]

\* the lists handed to zip: players.py aligns the lists of PlayerNeutral and
\* leaves id, position, dateOfBirth and age as they are
ClubPlayersLists(pg) ==
    LET raw == ClubPlayersRaw(pg)
    IN  [f \in DOMAIN raw |->
            IF f \in DOMAIN PlayerNeutral
            THEN Align(raw[f], PlayerNeutral[f], Len(pg.urls))
            ELSE raw[f]]

Zip(lists) ==
    [i \in 1..ZipLength(lists) |-> [f \in DOMAIN lists |-> lists[f][i]]]

OtherThanAssembly ==
    <<monitor, SessionVars, RequestVars, threads, retry_runs, block_check, playwright,
      extract, clubs_call, seasons_call>>

\* TransfermarktClubPlayers.__parse_club_players
ParseClubPlayers ==
    /\ ~assembly.done
    /\ assembly.fn = "__parse_club_players"
    /\ assembly' = [assembly EXCEPT
          !.raw = ClubPlayersRaw(assembly.page),
          !.lists = ClubPlayersLists(assembly.page),
          !.records = Zip(ClubPlayersLists(assembly.page)),
          !.done = TRUE]
    /\ UNCHANGED OtherThanAssembly

SearchFields ==
    {"name", "country", "clubs", "players", "total_market_value",
     "mean_market_value", "continent"}

SearchPages ==
    UNION { [lens : LengthsNear(SearchFields, n), urls : {Extracted(n)}] : n \in 0..MaxRows }

SearchRaw(pg) ==
    [id |-> pg.urls,
     name |-> Extracted(pg.lens.name),
     country |-> Extracted(pg.lens.country),
     clubs |-> Extracted(pg.lens.clubs),
     players |-> Extracted(pg.lens.players),
     totalMarketValue |-> Extracted(pg.lens.total_market_value),
     meanMarketValue |-> Extracted(pg.lens.mean_market_value),
     continent |-> Extracted(pg.lens.continent)]

SearchLists(pg) ==
    LET raw == SearchRaw(pg)
    IN  [f \in DOMAIN raw |->
            IF f \in {"id", "name"} THEN raw[f] ELSE pad_list(raw[f], Len(pg.urls))]

\* TransfermarktCompetitionSearch.__parse_search_results
ParseSearchResults ==
    /\ ~assembly.done
    /\ assembly.fn = "__parse_search_results"
    /\ assembly' = [assembly EXCEPT
          !.raw = SearchRaw(assembly.page),
          !.lists = SearchLists(assembly.page),
          !.records = Zip(SearchLists(assembly.page)),
          !.done = TRUE]
    /\ UNCHANGED OtherThanAssembly

NATIONAL_TEAM_COMPETITIONS == {"FIWC", "EURO", "COPA", "AFAC", "GOCU", "AFCN"}

\* the dict expected_sizes of __parse_competition_clubs
expected_sizes ==
    [FIWC |-> 32, EURO |-> 24, COPA |-> 12, AFAC |-> 24, GOCU |-> 16, AFCN |-> 24]

\* Settings.TOURNAMENT_SIZE_*: the defaults
TOURNAMENT_SIZE ==
    [FIWC |-> 32, EURO |-> 24, COPA |-> 12, AFAC |-> 24, GOCU |-> 16, AFCN |-> 24]

\* Settings.get_tournament_size
get_tournament_size(sizes, competition_id) ==
    IF competition_id \in DOMAIN sizes THEN sizes[competition_id] ELSE None

\* the values an environment variable TOURNAMENT_SIZE_<ID> is set to here
SizeOverrides == {None, 8, 48}

ClubsListLengths == {0, 1, 8, 9, 12, 13, 16, 17, 24, 25, 32, 33, 48, 49}

CompetitionClubsPages ==
    UNION { [names : {n - 1, n, n + 1} \cap Nat,
             urls : {n},
             competition_id : {c}, settings : {TOURNAMENT_SIZE} \cup
                        (IF c \in NATIONAL_TEAM_COMPETITIONS
                         THEN {[TOURNAMENT_SIZE EXCEPT ![c] = v] : v \in SizeOverrides}
                         ELSE {})]
            : c \in NATIONAL_TEAM_COMPETITIONS \cup {"GB1"}, n \in ClubsListLengths }

\* a record of the module's logger: its level, the fixed part of its text
\* and the competition id the text carries
LogRecord(level, text, competition_id) ==
    [competition_id |-> competition_id, level |-> level, text |-> text]

Take(lst, n) == SubSeq(lst, 1, Min(n, Len(lst)))

\* TransfermarktCompetitionClubs.__parse_competition_clubs
ParseCompetitionClubs ==
    /\ ~assembly.done
    /\ assembly.fn = "__parse_competition_clubs"
    /\ LET pg == assembly.page
           is_national_team == pg.competition_id \in NATIONAL_TEAM_COMPETITIONS
           expected_size == IF pg.competition_id \in DOMAIN expected_sizes
                            THEN expected_sizes[pg.competition_id] ELSE None
           cut   == is_national_team /\ expected_size # None /\ pg.urls > expected_size
           urls  == IF cut THEN Take(Extracted(pg.urls), expected_size)
                    ELSE Extracted(pg.urls)
           names == IF cut THEN Take(Extracted(pg.names), expected_size)
                    ELSE Extracted(pg.names)
           lists == [id |-> urls, name |-> names]
       IN  assembly' = [assembly EXCEPT
              !.raw = [id |-> Extracted(pg.urls), name |-> Extracted(pg.names)],
              !.lists = lists,
              !.records = IF Len(urls) # Len(names) THEN <<>> ELSE Zip(lists),
              !.error = IF Len(urls) # Len(names) THEN "ValueError" ELSE "",
              !.message = IF Len(urls) # Len(names)
                          THEN [ids |-> Len(urls), names |-> Len(names), url |-> TRUE]
                          ELSE @,
              !.log = IF Len(urls) # Len(names)
                      THEN <<LogRecord("ERROR", "Data mismatch", pg.competition_id)>>
                      ELSE <<>>,
              !.done = TRUE]
    /\ UNCHANGED OtherThanAssembly

(***************************************************************************)
(* The field extractor TransfermarktBase.get_text_by_xpath (base.py).  A   *)
(* text is the sequence of its characters, " " the whitespace character;   *)
(* an optional argument is <<>> for None and <<v>> for the value v.  The   *)
(* local `element` is a list of texts until element[iloc] makes it one     *)
(* text; Python indexes and slices both in the same way.                   *)
(***************************************************************************)
MaxMatches == 3

Nothing == <<>>

Some(v) == <<v>>

IsInt(arg) == arg # Nothing

Texts == { <<" ">>, <<" ", "b", " ">>, <<"c", "d">> }

Separators == { <<",">> }

\* the indexes given for pos, iloc, iloc_from and iloc_to
Indexes == (0 - 1)..MaxMatches

\* trim(text): the text without leading and trailing whitespace
Trim(text) ==
    LET inked == {i \in 1..Len(text) : text[i] # " "}
    IN  IF inked = {} THEN <<>>
        ELSE SubSeq(text, CHOOSE i \in inked : \A j \in inked : i <= j,
                          CHOOSE i \in inked : \A j \in inked : j <= i)

IsList(element) == element.kind = "list"

ListOf(items) == [kind |-> "list", items |-> items]

TextOf(chars) == [kind |-> "text", items |-> chars]

\* the entries of `element` when it is iterated or indexed: the texts of a
\* list, the one-character texts of a text
Entries(element) ==
    IF IsList(element) THEN element.items
    ELSE [i \in 1..Len(element.items) |-> <<element.items[i]>>]

\* element[i] raises IndexError outside -len .. len-1
InRange(element, i) == (0 - Len(element.items)) <= i /\ i < Len(element.items)

Item(element, i) ==
    Entries(element)[IF i < 0 THEN Len(element.items) + i + 1 ELSE i + 1]

\* where a slice bound falls in a sequence of n entries (None given as dflt)
Bound(n, arg, dflt) ==
    IF ~IsInt(arg) THEN dflt
    ELSE IF arg[1] < 0 THEN (IF n + arg[1] < 0 THEN 0 ELSE n + arg[1])
    ELSE Min(arg[1], n)

\* element[lo:hi]
Slice(element, lo, hi) ==
    LET n == Len(element.items)
    IN  [element EXCEPT !.items = SubSeq(@, Bound(n, lo, 0) + 1, Bound(n, hi, n))]

RECURSIVE Join(_, _)
\* join_str.join(texts)
Join(join_str, texts) ==
    IF texts = <<>> THEN <<>>
    ELSE IF Len(texts) = 1 THEN texts[1]
    ELSE texts[1] \o join_str \o Join(join_str, Tail(texts))

\* [trim(e) for e in element if trim(e)]
TrimmedNonEmpty(matches) ==
    SelectSeq([i \in 1..Len(matches) |-> Trim(matches[i])], LAMBDA t : t # <<>>)

Returned(value) == [result |-> value, error |-> ""]

Failed(type) == [result |-> Nothing, error |-> type]

\* TransfermarktBase.get_text_by_xpath on an initialized page whose xpath
\* gives the list `matches`
GetTextByXpath(matches, pos, iloc, iloc_from, iloc_to, join_str) ==
    IF matches = <<>> THEN Returned(Nothing)
    ELSE
    LET filtered == ListOf(TrimmedNonEmpty(matches))
    IN  IF IsInt(iloc) /\ ~InRange(filtered, iloc[1]) THEN Failed("IndexError")
        ELSE
        LET picked == IF IsInt(iloc) THEN TextOf(Item(filtered, iloc[1])) ELSE filtered
            both   == IF IsInt(iloc_from) /\ IsInt(iloc_to)
                      THEN Slice(picked, iloc_from, iloc_to) ELSE picked
            upto   == IF IsInt(iloc_to) THEN Slice(both, Nothing, iloc_to) ELSE both
            from   == IF IsInt(iloc_from) THEN Slice(upto, iloc_from, Nothing) ELSE upto
        IN  IF IsInt(join_str)
            THEN Returned(Some(Join(join_str[1],
                     [i \in 1..Len(from.items) |-> Trim(Entries(from)[i])])))
            ELSE IF InRange(from, pos) THEN Returned(Some(Trim(Item(from, pos))))
            ELSE Returned(Nothing)

NoExtract ==
    [result |-> Nothing, done |-> FALSE, error |-> "", join_str |-> Nothing,
     matches |-> <<>>, pos |-> 0, iloc |-> Nothing,
     iloc_from |-> Nothing, iloc_to |-> Nothing]

Optional(S) == {Nothing} \cup {Some(v) : v \in S}

ExtractCalls ==
    [result : {Nothing}, done : {FALSE}, error : {""},
     join_str : Optional(Separators), matches : SeqsUpTo(Texts, MaxMatches),
     pos : Indexes, iloc : Optional(Indexes),
     iloc_from : Optional(Indexes), iloc_to : Optional(Indexes)]

GetTextByXpathCall ==
    /\ ~extract.done
    /\ LET out == GetTextByXpath(extract.matches, extract.pos, extract.iloc,
                                 extract.iloc_from, extract.iloc_to, extract.join_str)
       IN  extract' = [extract EXCEPT
              !.done = TRUE, !.error = out.error, !.result = out.result]
    /\ UNCHANGED <<monitor, SessionVars, RequestVars, threads, retry_runs,
                   block_check, playwright, assembly, clubs_call, seasons_call>>

(***************************************************************************)
(* The monitor called from one thread: any sequence of record_request,     *)
(* record_retry, record_session_created, record_browser_request and        *)
(* reset_stats calls, with any arguments.                                  *)
(***************************************************************************)
MaxRecorded == 4

\* AntiScrapingMonitor.reset_stats
ResetStats(m) == MonitorInit

Recorded(m) ==
    m.requests_total + m.retries_performed + m.sessions_created + m.browser_requests

MonitorCall(m) ==
    /\ Recorded(monitor) < MaxRecorded
    /\ monitor' = m
    /\ UNCHANGED <<SessionVars, RequestVars, ExtVars>>

RecordRequestCall ==
    \E success \in BOOLEAN, was_blocked \in BOOLEAN :
        MonitorCall(RecordRequest(monitor, success, was_blocked))

RecordRetryCall == MonitorCall(RecordRetry(monitor))

RecordSessionCreatedCall == MonitorCall(RecordSessionCreated(monitor))

RecordBrowserRequestCall ==
    \E success \in BOOLEAN : MonitorCall(RecordBrowserRequest(monitor, success))

ResetStatsCall ==
    /\ monitor' = ResetStats(monitor)
    /\ UNCHANGED <<SessionVars, RequestVars, ExtVars>>

(***************************************************************************)
(* The seasons of TransfermarktCompetitionClubs (competitions/clubs.py).   *)
(* A season identifier is a string; the model keeps the number it spells,  *)
(* and -1 for the string "-1", the one identifier here that is not all     *)
(* digits.  An absent identifier is Nothing.                               *)
(***************************************************************************)
MaxSeason == 3

SeasonIds == (0 - 1)..MaxSeason

\* str.isdigit()
IsDigit(season) == season >= 0

\* `if x` for an optional string
Truthy(arg) == arg # Nothing

Competitions == NATIONAL_TEAM_COMPETITIONS \cup {"GB1"}

\* the season that __get_national_team_url puts in the URL
NationalTeamUrlSeason(season_id) ==
    IF Truthy(season_id) /\ IsDigit(season_id[1])
    THEN Some(season_id[1] - 1)
    ELSE season_id

\* the season in self.URL after __post_init__
UrlSeason(competition_id, season_id) ==
    IF competition_id \in NATIONAL_TEAM_COMPETITIONS
    THEN NationalTeamUrlSeason(season_id)
    ELSE season_id

\* response["seasonId"] of get_competition_clubs (Nothing: key not set);
\* url_season_id is what extract_from_url finds in the page's canonical URL
ResponseSeasonId(competition_id, season_id, url_season_id) ==
    IF competition_id \in NATIONAL_TEAM_COMPETITIONS
    THEN IF Truthy(url_season_id) /\ IsDigit(url_season_id[1])
         THEN Some(url_season_id[1] + 1)
         ELSE IF Truthy(url_season_id) THEN url_season_id
         ELSE IF Truthy(season_id) THEN season_id
         ELSE Nothing
    ELSE IF Truthy(url_season_id) THEN url_season_id ELSE Nothing

NoClubsCall ==
    [pc |-> "idle", page |-> Nothing, competition_id |-> "", season_id |-> Nothing,
     URL |-> Nothing, seasonId |-> Nothing]

OtherThanClubsCall ==
    <<monitor, SessionVars, RequestVars, threads, retry_runs, block_check, playwright,
      assembly, extract, seasons_call>>

\* TransfermarktCompetitionClubs.__post_init__: the URL is built and the page
\* fetched; the page's canonical URL holds some season or none
ClubsPostInit ==
    /\ clubs_call.pc = "new"
    /\ \E page \in Optional(SeasonIds \cup {MaxSeason + 1}) :
        clubs_call' = [clubs_call EXCEPT
            !.pc = "ready",
            !.URL = UrlSeason(clubs_call.competition_id, clubs_call.season_id),
            !.page = page]
    /\ UNCHANGED OtherThanClubsCall

\* TransfermarktCompetitionClubs.get_competition_clubs
GetCompetitionClubs ==
    /\ clubs_call.pc = "ready"
    /\ clubs_call' = [clubs_call EXCEPT
          !.pc = "done",
          !.seasonId = ResponseSeasonId(clubs_call.competition_id,
                                        clubs_call.season_id, clubs_call.page)]
    /\ UNCHANGED OtherThanClubsCall

(***************************************************************************)
(* The seasons of a competition (competitions/seasons.py).  A season token *)
(* is the sequence of the parts that split("/") gives, so a token with     *)
(* n - 1 slashes has n parts.  A part is known by its text, its length,    *)
(* whether it is all digits and what int() makes of it (Nothing: int       *)
(* raises ValueError).                                                     *)
(***************************************************************************)
MaxTokens == 2

Part(text, len, isdigit, int) ==
    [len |-> len, text |-> text, isdigit |-> isdigit, int |-> int]

Parts ==
    { Part("99", 2, TRUE, Some(99)), Part("00", 2, TRUE, Some(0)),
      Part("25", 2, TRUE, Some(25)), Part("2024", 4, TRUE, Some(2024)),
      Part("ab", 2, FALSE, Nothing), Part("Show", 4, FALSE, Nothing),
      Part("", 0, FALSE, Nothing) }

\* the tokens of a page: no token is empty
Tokens ==
    ({<<a>> : a \in Parts} \ {<<Part("", 0, FALSE, Nothing)>>})
    \cup {<<a, b>> : a \in Parts, b \in Parts}
    \cup {<<Part("25", 2, TRUE, Some(25)), Part("25", 2, TRUE, Some(25)),
            Part("25", 2, TRUE, Some(25))>>}

\* season_name.lower() in skip_words
IsSkipWord(season_name) == Len(season_name) = 1 /\ season_name[1].text \in {"Show"}

Years(start_year, end_year) ==
    [error |-> "", start_year |-> start_year, end_year |-> end_year]

YearsFailed(type) == [error |-> type, start_year |-> None, end_year |-> None]

\* TransfermarktCompetitionSeasons.__parse_season_to_years
ParseSeasonToYears(season_name) ==
    IF Len(season_name) >= 2
    THEN IF Len(season_name) = 2
         THEN LET start_part == season_name[1]
                  end_part   == season_name[2]
              IN  IF start_part.int = Nothing THEN YearsFailed("ValueError")
                  ELSE
                  LET start_year == IF start_part.len = 2
                                    THEN IF start_part.int[1] >= 90
                                         THEN 1900 + start_part.int[1]
                                         ELSE 2000 + start_part.int[1]
                                    ELSE start_part.int[1]
                  IN  IF end_part.int = Nothing THEN YearsFailed("ValueError")
                      ELSE IF end_part.len = 2
                      THEN LET end_num   == end_part.int[1]
                               start_num == IF start_part.len = 2 THEN start_part.int[1]
                                            ELSE start_year % 100
                           IN  IF end_num < start_num
                               THEN Years(start_year, 2000 + end_num)
                               ELSE IF start_year >= 2000
                               THEN Years(start_year, 2000 + end_num)
                               ELSE Years(start_year, 1900 + end_num)
                      ELSE Years(start_year, end_part.int[1])
         ELSE Years(None, None)
    ELSE IF season_name[1].int = Nothing THEN Years(None, None)
         ELSE Years(season_name[1].int[1], season_name[1].int[1])

\* TransfermarktCompetitionSeasons.__parse_season_id_from_name: the number
\* whose text str() gives, or the start part as it is
ParseSeasonIdFromName(season_name) ==
    IF Len(season_name) = 2 /\ season_name[1].len = 2
    THEN [text |-> "",
          year |-> IF season_name[1].int[1] >= 90 THEN 1900 + season_name[1].int[1]
                   ELSE 2000 + season_name[1].int[1]]
    ELSE IF Len(season_name) = 2 THEN [text |-> season_name[1].text, year |-> 0]
    ELSE [text |-> season_name[1].text, year |-> 0]

IsSeason(season_name) ==
    \/ Len(season_name) >= 2
    \/ season_name[1].isdigit /\ season_name[1].len = 4

RECURSIVE SortByStartYearDesc(_)
\* seasons.sort(key=lambda x: x["startYear"], reverse=True), a stable sort
SortByStartYearDesc(seasons) ==
    IF seasons = <<>> THEN <<>>
    ELSE LET first == CHOOSE i \in DOMAIN seasons :
                        /\ \A j \in DOMAIN seasons :
                               seasons[j].startYear <= seasons[i].startYear
                        /\ \A j \in 1..(i - 1) :
                               seasons[j].startYear < seasons[i].startYear
         IN  <<seasons[first]>>
             \o SortByStartYearDesc([k \in 1..(Len(seasons) - 1) |->
                                       IF k < first THEN seasons[k] ELSE seasons[k + 1]])

RECURSIVE ParseSeasonsFrom(_, _, _)
\* the loop of __parse_seasons over season_options, then the sort
ParseSeasonsFrom(season_options, seen_seasons, seasons) ==
    IF season_options = <<>>
    THEN [error |-> "", seasons |-> SortByStartYearDesc(seasons)]
    ELSE LET season_name == Head(season_options)
             rest == Tail(season_options)
             seen == seen_seasons \cup {season_name}
         IN  IF season_name \in seen_seasons
             THEN ParseSeasonsFrom(rest, seen_seasons, seasons)
             ELSE IF IsSkipWord(season_name) \/ ~IsSeason(season_name)
             THEN ParseSeasonsFrom(rest, seen, seasons)
             ELSE LET years == ParseSeasonToYears(season_name)
                  IN  IF years.error # ""
                      THEN [error |-> years.error, seasons |-> <<>>]
                      ELSE IF years.start_year # None /\ years.end_year # None
                      THEN ParseSeasonsFrom(rest, seen, Append(seasons,
                              [seasonId |-> ParseSeasonIdFromName(season_name),
                               startYear |-> years.start_year,
                               seasonName |-> season_name,
                               endYear |-> years.end_year]))
                      ELSE ParseSeasonsFrom(rest, seen, seasons)

NoSeasonsCall == [done |-> FALSE, error |-> "", seasons |-> <<>>, season_options |-> <<>>]

\* TransfermarktCompetitionSeasons.__parse_seasons
ParseSeasons ==
    /\ ~seasons_call.done
    /\ LET out == ParseSeasonsFrom(seasons_call.season_options, {}, <<>>)
       IN  seasons_call' = [seasons_call EXCEPT
              !.done = TRUE, !.error = out.error, !.seasons = out.seasons]
    /\ UNCHANGED <<monitor, SessionVars, RequestVars, threads, retry_runs,
                   block_check, playwright, assembly, extract, clubs_call>>

(***************************************************************************)
(* Specifications.                                                         *)
(***************************************************************************)
Init ==
    /\ monitor = MonitorInit
    /\ sessions = <<>>
    /\ clock = 0
    /\ next_session = 1
    /\ ENABLE_BROWSER_SCRAPING \in BOOLEAN
    /\ stack = <<>>
    /\ ret = NoRet
    /\ calls = 0
    /\ hist = NoHist
    /\ finished = NoFinished
    /\ last_get = NoGet
    /\ threads = [t \in Threads |-> IdleThread]
    /\ retry_runs = NoRuns
    /\ block_check = NoCheck
    /\ playwright = NoPlaywright
    /\ assembly = NoAssembly
    /\ extract = NoExtract
    /\ clubs_call = NoClubsCall
    /\ seasons_call = NoSeasonsCall

Next ==
    \/ CallExecuteWithRetry
    \/ CallMakeRequest
    \/ CallMakeRequestWithBrowserFallback
    \/ CallRequestUrlBsoup
    \/ CallRequestUrlPage
    \/ ExecuteWithRetry
    \/ MakeRequestWithBrowserFallback
    \/ ScrapeWithFallback
    \/ RequestUrlBsoup
    \/ RequestUrlPage

Spec == Init /\ [][Next]_vars

InitSessions ==
    /\ Init
    /\ ENABLE_BROWSER_SCRAPING = TRUE

NextSessions ==
    \/ Tick
    \/ GetSessionCall

SpecSessions == InitSessions /\ [][NextSessions]_vars

\* concurrent get_session calls, one per thread, on a table that earlier
\* calls have filled
InitThreads ==
    /\ \E n \in 0..max_sessions :
        /\ sessions = SessionsAfter(n)
        /\ next_session = n + 1
        /\ monitor = [MonitorInit EXCEPT !.sessions_created = n]
    /\ clock = 0
    /\ ENABLE_BROWSER_SCRAPING = TRUE
    /\ stack = <<>>
    /\ ret = NoRet
    /\ calls = 0
    /\ hist = NoHist
    /\ finished = NoFinished
    /\ last_get = NoGet
    /\ threads = [t \in Threads |-> IdleThread]
    /\ retry_runs = NoRuns
    /\ block_check = NoCheck
    /\ playwright = NoPlaywright
    /\ assembly = NoAssembly
    /\ extract = NoExtract
    /\ clubs_call = NoClubsCall
    /\ seasons_call = NoSeasonsCall

NextThreads ==
    \/ Tick
    \/ \E t \in Threads : GetSessionEnter(t)
    \/ \E t \in Threads : GetSessionPurge(t)
    \/ \E t \in Threads : GetSessionTest(t)
    \/ \E t \in Threads : GetSessionRead(t)
    \/ \E t \in Threads : GetSessionInsert(t)
    \/ \E t \in Threads : GetSessionRecord(t)
    \/ \E t \in Threads : GetSessionLimit(t)
    \/ \E t \in Threads : GetSessionOldest(t)
    \/ \E t \in Threads : GetSessionEvict(t)

SpecThreads == InitThreads /\ [][NextThreads]_vars

\* concurrent calls of the monitor, one per thread
NextMonitorThreads ==
    \/ \E t \in Threads : MonitorEnter(t)
    \/ \E t \in Threads : MonitorLoad(t)
    \/ \E t \in Threads : MonitorStore(t)

SpecMonitorThreads == InitSessions /\ [][NextMonitorThreads]_vars

\* the state of the request layer and the threads before anything has run
InitIdle ==
    /\ monitor = MonitorInit
    /\ sessions = <<>>
    /\ clock = 0
    /\ next_session = 1
    /\ ENABLE_BROWSER_SCRAPING = TRUE
    /\ stack = <<>>
    /\ ret = NoRet
    /\ calls = 0
    /\ hist = NoHist
    /\ finished = NoFinished
    /\ last_get = NoGet
    /\ threads = [t \in Threads |-> IdleThread]

InitRetryRuns ==
    /\ InitIdle
    /\ retry_runs \in [done : {FALSE}, outcomes : OutcomeSeqs, sync : {NoRun}, async : {NoRun}]
    /\ block_check = NoCheck
    /\ playwright = NoPlaywright
    /\ assembly = NoAssembly
    /\ extract = NoExtract
    /\ clubs_call = NoClubsCall
    /\ seasons_call = NoSeasonsCall

NextRetryRuns == RunBothRetryLoops

SpecRetryRuns == InitRetryRuns /\ [][NextRetryRuns]_vars

InitBlockCheck ==
    /\ InitIdle
    /\ retry_runs = NoRuns
    /\ block_check \in [response : CheckedResponses, blocked : {FALSE}, done : {FALSE}]
    /\ playwright = NoPlaywright
    /\ assembly = NoAssembly
    /\ extract = NoExtract
    /\ clubs_call = NoClubsCall
    /\ seasons_call = NoSeasonsCall

NextBlockCheck == DetectBlockCall

SpecBlockCheck == InitBlockCheck /\ [][NextBlockCheck]_vars

NextPlaywright ==
    \/ ScrapeLaunch
    \/ ScrapeNewContext
    \/ ScrapeGoto
    \/ ScrapeBehavior
    \/ ScrapeWaitForSelector
    \/ ScrapeWaitNetworkIdle
    \/ ScrapeContent
    \/ ScrapeFinally

SpecPlaywright == InitSessions /\ [][NextPlaywright]_vars

AssemblyCalls ==
    [fn : {"__parse_club_players"}, page : ClubPlayersPages]
    \cup [fn : {"__parse_search_results"}, page : SearchPages]
    \cup [fn : {"__parse_competition_clubs"}, page : CompetitionClubsPages]

InitAssembly ==
    /\ InitIdle
    /\ retry_runs = NoRuns
    /\ block_check = NoCheck
    /\ playwright = NoPlaywright
    /\ \E call \in AssemblyCalls :
        assembly = [NoAssembly EXCEPT !.fn = call.fn, !.page = call.page]
    /\ extract = NoExtract
    /\ clubs_call = NoClubsCall
    /\ seasons_call = NoSeasonsCall

NextAssembly ==
    \/ ParseClubPlayers
    \/ ParseSearchResults
    \/ ParseCompetitionClubs

SpecAssembly == InitAssembly /\ [][NextAssembly]_vars

InitExtract ==
    /\ InitIdle
    /\ retry_runs = NoRuns
    /\ block_check = NoCheck
    /\ playwright = NoPlaywright
    /\ assembly = NoAssembly
    /\ extract \in ExtractCalls
    /\ clubs_call = NoClubsCall
    /\ seasons_call = NoSeasonsCall

NextExtract == GetTextByXpathCall

SpecExtract == InitExtract /\ [][NextExtract]_vars

InitClubsCall ==
    /\ InitIdle
    /\ retry_runs = NoRuns
    /\ block_check = NoCheck
    /\ playwright = NoPlaywright
    /\ assembly = NoAssembly
    /\ extract = NoExtract
    /\ \E c \in Competitions, season \in Optional(SeasonIds) :
        clubs_call = [NoClubsCall EXCEPT
            !.pc = "new", !.competition_id = c, !.season_id = season]
    /\ seasons_call = NoSeasonsCall

NextClubsCall ==
    \/ ClubsPostInit
    \/ GetCompetitionClubs

SpecClubsCall == InitClubsCall /\ [][NextClubsCall]_vars

InitSeasonsCall ==
    /\ InitIdle
    /\ retry_runs = NoRuns
    /\ block_check = NoCheck
    /\ playwright = NoPlaywright
    /\ assembly = NoAssembly
    /\ extract = NoExtract
    /\ clubs_call = NoClubsCall
    /\ \E season_options \in SeqsUpTo(Tokens, MaxTokens) :
        seasons_call = [NoSeasonsCall EXCEPT !.season_options = season_options]

NextSeasonsCall == ParseSeasons

SpecSeasonsCall == InitSeasonsCall /\ [][NextSeasonsCall]_vars

NextMonitor ==
    \/ RecordRequestCall
    \/ RecordRetryCall
    \/ RecordSessionCreatedCall
    \/ RecordBrowserRequestCall
    \/ ResetStatsCall

SpecMonitor == InitSessions /\ [][NextMonitor]_vars

(***************************************************************************)
(* Properties of the request layer (specification Spec).                   *)
(***************************************************************************)
IsMakeRequest(fr) == fr.fn = "execute_with_retry" /\ fr.op = "_single_request"

Last(seq) == seq[Len(seq)]

\* C1: a response classified as blocked is not retried: make_request issues
\* no further GET after it, and a call whose first response is blocked ends
\* after that one GET by raising, with retries_performed unchanged.
C1_BlockedIsNotRetried ==
    /\ \A i \in DOMAIN stack :
          IsMakeRequest(stack[i]) =>
              \A j \in DOMAIN stack[i].outs : stack[i].outs[j] # "blocked"
    /\ (finished.op = "_single_request" /\ finished.outs[1] = "blocked") =>
          /\ finished.invocations = 1
          /\ finished.retries = 0
          /\ finished.result.kind = "raise"

\* C2: when the response of an attempt is classified as blocked, the error
\* _single_request raises for that attempt has status code 403.
C2_BlockedRaises403 ==
    hist.last_cls = "blocked" => hist.last_exc.status_code = 403

\* C3: every attempt of make_request adds exactly one to requests_total, and
\* a blocked attempt adds exactly one to blocks_detected.
C3_OneRecordPerAttempt ==
    hist.last_cls # "" =>
        /\ monitor.requests_total = hist.requests_before + 1
        /\ hist.last_cls = "blocked" =>
              monitor.blocks_detected = hist.blocks_before + 1

\* C4: execute_with_retry returns normally only with the value some invocation
\* returned; when the last of max_attempts invocations fails with a retryable
\* error (429, 503 or a status-less request error) that error is raised.
C4_ReturnsOnlyAValue ==
    finished.op = "func" =>
        /\ finished.result.kind = "return" =>
              /\ Last(finished.outs) = "ok"
              /\ finished.result.val = "value"
        /\ ( /\ finished.invocations = max_attempts
             /\ Last(finished.outs) \in {"http429", "http503", "RequestException"} ) =>
              /\ finished.result.kind = "raise"
              /\ finished.result.exc.site = "func"

\* C5: an operation failing k <= 2 times with a 503 error and then succeeding
\* is invoked again after each failure (a 503 failure ends the call only as
\* the last of max_attempts invocations) and returns the value after k+1
\* invocations with retries_performed raised by k; a 4xx error other than 429
\* is raised at once, and when it is the first failure that is after one
\* invocation with retries_performed unchanged.
C5_RetryCounts ==
    /\ \A i \in DOMAIN stack :
          (stack[i].fn = "execute_with_retry" /\ stack[i].op = "func") =>
              \A j \in DOMAIN stack[i].outs :
                  stack[i].outs[j] \notin {"http400", "http404"}
    /\ finished.op = "func" =>
          /\ ( /\ Last(finished.outs) = "ok"
               /\ \A j \in 1..(Len(finished.outs) - 1) : finished.outs[j] = "http503" ) =>
                /\ finished.result = Return("value")
                /\ finished.invocations = Len(finished.outs)
                /\ finished.retries = Len(finished.outs) - 1
          /\ Last(finished.outs) = "http503" => finished.invocations = max_attempts
          /\ finished.outs[1] \in {"http400", "http404"} =>
                /\ finished.result.kind = "raise"
                /\ finished.result.exc.type = "HTTPException"
                /\ StatusName(finished.result.exc.status_code) = finished.outs[1]
                /\ finished.invocations = 1
                /\ finished.retries = 0

C5_Witness ==
    /\ finished.op = "func"
    /\ finished.outs = <<"http503", "http503", "ok">>
    /\ finished.result = Return("value")
    /\ finished.retries = 2

\* C6: a make_request call that ends on a network-level failure of the GET
\* (timeout, connection error, too many redirects) has made max_attempts
\* attempts, and raises the error typed after that failure.
C6_NetworkFailuresRetried ==
    ( /\ finished.op = "_single_request"
      /\ Last(finished.outs) \in {"Timeout", "ConnectionError", "TooManyRedirects"} ) =>
        /\ finished.invocations = max_attempts
        /\ finished.result.kind = "raise"
        /\ finished.result.exc.status_code =
              CASE Last(finished.outs) = "Timeout" -> 408
                [] Last(finished.outs) = "ConnectionError" -> 503
                [] OTHER -> 404

\* C7: with ENABLE_BROWSER_SCRAPING disabled request_url_page starts no
\* browser rendering and records no browser request; a rendering is started
\* only after an HTTP path has failed.
C7_BrowserOnlyWhenEnabled ==
    hist.entry = "request_url_page" =>
        /\ hist.browsers > 0 => hist.first_error # NoError
        /\ ~ENABLE_BROWSER_SCRAPING =>
              /\ hist.browsers = 0
              /\ monitor.browser_requests = 0

\* C8: when request_url_page fails because the HTTP path and the browser
\* fallback both failed, it raises the error of the first make_request call.
C8_OriginalHttpErrorPropagates ==
    ( /\ Idle
      /\ hist.entry = "request_url_page"
      /\ ret.kind = "raise"
      /\ ret.exc.site # "convert_bsoup_to_page" ) =>
        /\ hist.browser_failures >= 1
        /\ ret.exc = hist.first_error
        /\ ret.exc.site = "_single_request"
        /\ ret.exc.seq = 1

C8_Witness ==
    /\ Idle
    /\ hist.entry = "request_url_page"
    /\ ret.kind = "raise"
    /\ ret.exc.seq = 1
    /\ hist.mr_seq = 3
    /\ hist.browser_failures = 2

(***************************************************************************)
(* Properties of the session manager (specification SpecSessions).         *)
(***************************************************************************)
\* C9: the same key asked for twice in a row, within the timeout of the
\* session, gives the same session; asked for after the session's age exceeds
\* the timeout it gives a newly constructed session and the old entry is gone.
C9_SameSessionUntilTimeout ==
    /\ ( /\ last_get.n >= 2
         /\ last_get.key = last_get.prev_key
         /\ HasKey(last_get.before, last_get.key)
         /\ last_get.now - Lookup(last_get.before, last_get.key).created_at
               <= session_timeout ) =>
          last_get.session = last_get.prev_session
    /\ ( /\ HasKey(last_get.before, last_get.key)
         /\ last_get.t1 - Lookup(last_get.before, last_get.key).created_at
               > session_timeout ) =>
          /\ last_get.created
          /\ \A i \in DOMAIN last_get.before :
                /\ last_get.before[i].session # last_get.session
                /\ last_get.before[i].id = last_get.key =>
                      \A j \in DOMAIN sessions : sessions[j] # last_get.before[i]

C9_Witness ==
    /\ last_get.n >= 2
    /\ last_get.key = last_get.prev_key
    /\ HasKey(last_get.before, last_get.key)
    /\ last_get.t1 - Lookup(last_get.before, last_get.key).created_at > session_timeout
    /\ last_get.session # last_get.prev_session

\* C10: the table never holds more than max_sessions entries; an insertion
\* that pushes it over removes exactly one entry, one of least created_at.
C10_TableBounded ==
    /\ Len(sessions) <= max_sessions
    /\ Len(last_get.inserted) > max_sessions =>
          \E i \in DOMAIN last_get.inserted :
              /\ sessions = RemoveAt(last_get.inserted, i)
              /\ \A j \in DOMAIN last_get.inserted :
                    last_get.inserted[i].created_at <= last_get.inserted[j].created_at

C10_Witness ==
    /\ Len(last_get.inserted) > max_sessions
    /\ Len(sessions) = max_sessions
    /\ \E i, j \in DOMAIN last_get.inserted :
          last_get.inserted[i].created_at < last_get.inserted[j].created_at

(***************************************************************************)
(* Properties of concurrent use (specifications SpecThreads and            *)
(* SpecMonitorThreads).                                                    *)
(***************************************************************************)
Overlap(t, u) == t \in threads[u].with \/ u \in threads[t].with

\* C11: concurrent get_session calls behave as if run one after the other:
\* no call fails on an entry that another call removed, two overlapping calls
\* with the same fresh key, no time passing, get the same session object, and
\* the table holds at most max_sessions entries once every call has returned.
C11_GetSessionCallsAtomic ==
    /\ \A t \in Threads : threads[t].pc # "raised"
    /\ \A t, u \in Threads :
        (/\ t # u
         /\ threads[t].pc = "done" /\ threads[u].pc = "done"
         /\ Overlap(t, u)
         /\ threads[t].key = threads[u].key
         /\ threads[t].fresh /\ threads[u].fresh
         /\ threads[t].started = clock /\ threads[u].started = clock)
        => threads[t].session = threads[u].session
    /\ (\A t \in Threads : threads[t].pc \in {"idle", "done"})
        => Len(sessions) <= max_sessions

Completed(op) == Cardinality({t \in Threads : threads[t].pc = "done" /\ threads[t].op = op})

\* C12: no counter update is lost: when no monitor call is in progress, the
\* counters equal the numbers of completed calls.
C12_NoLostCounterUpdate ==
    (\A t \in Threads : threads[t].pc \in {"idle", "done"})
    => /\ monitor.requests_total = Completed("record_request")
       /\ monitor.requests_successful + monitor.requests_failed = Completed("record_request")
       /\ monitor.retries_performed = Completed("record_retry")
       /\ monitor.sessions_created = Completed("record_session_created")

(***************************************************************************)
(* Properties of the two retry loops (specification SpecRetryRuns).        *)
(***************************************************************************)
\* C13: execute_with_retry_async behaves as execute_with_retry: on every
\* outcome sequence both make the same number of invocations, end with the
\* same result or raised error, and add the same amount, one per retry, to the
\* retry counter of the monitor.
C13_AsyncSameAsSync ==
    retry_runs.done =>
        /\ retry_runs.async.invocations = retry_runs.sync.invocations
        /\ retry_runs.async.ret = retry_runs.sync.ret
        /\ retry_runs.async.monitor.retries_performed
             = retry_runs.sync.monitor.retries_performed
        /\ retry_runs.sync.monitor.retries_performed = retry_runs.sync.invocations - 1

(***************************************************************************)
(* Properties of the block detector (specification SpecBlockCheck).        *)
(***************************************************************************)
\* the number of the first rule of the list that matches
FirstMatchingRule(r) ==
    IF r.status_code \in {403, 429, 503} THEN 1
    ELSE IF r.len < 1000 /\ ~r.transfermarkt THEN 2
    ELSE IF r.status_code >= 400 /\ r.block_phrase THEN 3
    ELSE IF (r.captcha /\ r.solve_or_verify) \/ r.recaptcha \/ r.hcaptcha THEN 4
    ELSE 5

RuleOutcome(r) ==
    CASE FirstMatchingRule(r) = 1 ->
            ~(r.status_code = 403 /\ r.len > 5000 /\ r.transfermarkt)
      [] FirstMatchingRule(r) = 5 -> FALSE
      [] OTHER -> TRUE

\* C14: _detect_block gives the outcome of the first matching rule of the
\* ordered list (status 403/429/503 unless a large branded 403; short
\* unbranded body; status >= 400 with a block phrase; CAPTCHA indicators;
\* otherwise not blocked), and the four named examples come out as stated.
C14_DetectBlockFollowsRules ==
    block_check.done =>
        LET r == block_check.response
        IN  /\ block_check.blocked = RuleOutcome(r)
            /\ (r.status_code = 403 /\ r.len = 6000 /\ r.transfermarkt)
                 => ~block_check.blocked
            /\ (r.status_code = 403 /\ r.len = 200) => block_check.blocked
            /\ (r.status_code = 200 /\ r.len = 500 /\ ~r.transfermarkt)
                 => block_check.blocked
            /\ (r.status_code = 200 /\ r.len = 5000 /\ r.recaptcha)
                 => block_check.blocked

C14_Witness ==
    /\ block_check.done
    /\ block_check.response.status_code = 403
    /\ block_check.response.len = 6000
    /\ block_check.response.transfermarkt
    /\ block_check.response.block_phrase
    /\ ~block_check.blocked

(***************************************************************************)
(* Properties of the browser renderer (specification SpecPlaywright).      *)
(***************************************************************************)
\* C15: every browser that scrape_with_browser launched is closed when the
\* call returns or raises, whatever the exit path, and no call uses a browser
\* of an earlier call.
C15_BrowserClosedOnEveryExit ==
    /\ playwright.pc = "idle" => playwright.open = {}
    /\ \A i \in DOMAIN playwright.returned :
        /\ playwright.returned[i].open = {}
        /\ \A j \in DOMAIN playwright.returned :
            (i # j /\ playwright.returned[i].browser # NoBrowser)
            => playwright.returned[i].browser # playwright.returned[j].browser
    /\ playwright.pc \notin {"idle"} =>
        \A i \in DOMAIN playwright.returned :
            playwright.returned[i].browser # playwright.browser

C15_Witness ==
    /\ playwright.pc = "idle"
    /\ Len(playwright.returned) = 2
    /\ playwright.returned[1].result = "raise"
    /\ playwright.returned[1].at = "goto"
    /\ playwright.returned[2].result = "return"
    /\ playwright.swallowed = 2

(***************************************************************************)
(* Properties of record assembly (specification SpecAssembly).             *)
(***************************************************************************)
Assembled(fn) == assembly.done /\ assembly.fn = fn

\* C16: a successful assembly of club players or of competition search results
\* gives records that all have the same field names, as many as there are
\* permalinks, whatever the lengths of the other extracted lists.
C16_RecordCountIsCanonical ==
    (/\ Assembled("__parse_club_players") \/ Assembled("__parse_search_results")
     /\ assembly.error = "")
    => /\ Len(assembly.records) = Len(assembly.page.urls)
       /\ \A i, j \in DOMAIN assembly.records :
             DOMAIN assembly.records[i] = DOMAIN assembly.records[j]

C18_OneRecordPerPermalink ==
    (Assembled("__parse_club_players") /\ IsNationalTeam(assembly.page))
    => /\ \A i, j \in DOMAIN assembly.records :
             i # j => assembly.records[i].id # assembly.records[j].id
       /\ {assembly.records[i].id : i \in DOMAIN assembly.records}
             = {assembly.page.urls[i] : i \in DOMAIN assembly.page.urls}

\* C19: when the identifier list and the name list differ in length after
\* truncation and padding, competition-clubs parsing and competition search
\* raise a data-integrity error naming both lengths and the URL, and return
\* no records.
C19_LengthMismatchRaises ==
    (/\ Assembled("__parse_competition_clubs") \/ Assembled("__parse_search_results")
     /\ Len(assembly.lists.id) # Len(assembly.lists.name))
    => /\ assembly.error # ""
       /\ assembly.message.ids = Len(assembly.lists.id)
       /\ assembly.message.names = Len(assembly.lists.name)
       /\ assembly.message.url
       /\ assembly.records = <<>>

\* C20: for a national-team competition the clubs are cut to the participant
\* count that the settings give for the competition, so the result never has
\* more clubs than the configured count and follows a change of it.
C20_ConfiguredSizeUsed ==
    (/\ Assembled("__parse_competition_clubs")
     /\ assembly.page.competition_id \in NATIONAL_TEAM_COMPETITIONS
     /\ assembly.error = ""
     /\ get_tournament_size(assembly.page.settings, assembly.page.competition_id) # None)
    => Len(assembly.records)
         = Min(assembly.page.urls,
               get_tournament_size(assembly.page.settings, assembly.page.competition_id))

\* C21: for a national-team competition whose participant count the settings
\* give as None, parsing the clubs logs a warning with the text 'Expected
\* tournament size not configured' and the competition id, and goes on
\* without truncation.
C21_UnconfiguredSizeWarns ==
    (/\ Assembled("__parse_competition_clubs")
     /\ assembly.page.competition_id \in NATIONAL_TEAM_COMPETITIONS
     /\ get_tournament_size(assembly.page.settings, assembly.page.competition_id) = None)
    => /\ \E i \in DOMAIN assembly.log :
             /\ assembly.log[i].level = "WARNING"
             /\ assembly.log[i].text = "Expected tournament size not configured"
             /\ assembly.log[i].competition_id = assembly.page.competition_id
       /\ Len(assembly.lists.id) = assembly.page.urls
       /\ Len(assembly.lists.name) = assembly.page.names

\* C23: during one request_url_page call the session GET is issued at most
\* max_attempts times before the browser renderer is invoked, and the browser
\* renderer is invoked at most once.
C23_HttpThenOneEscalation ==
    hist.entry = "request_url_page" =>
        /\ hist.browsers = 0 => hist.gets <= max_attempts
        /\ hist.browsers <= 1

\* C24: in club-players assembly every field value of record i is the value
\* extracted from the table row of permalink i or the field's neutral value;
\* a row lacking a sub-element does not move the values of later rows onto
\* earlier records.
C24_ValuesStayInTheirRow ==
    (/\ Assembled("__parse_club_players")
     /\ ~IsNationalTeam(assembly.page)
     /\ assembly.page.urls = Extracted(Len(assembly.page.urls)))
    => \A i \in DOMAIN assembly.records :
          \A f \in DOMAIN assembly.records[i] :
             \/ assembly.records[i][f] = i
             \/ assembly.records[i][f] \in {None, EmptyString, EmptyList}

\* C25: with no is_national_team flag given, a roster page without a wrapper
\* cell whose rows list players is taken for the national-team layout and
\* gives one record for each listed player, not an empty list.
C25_HeuristicFindsNationalLayout ==
    (/\ Assembled("__parse_club_players")
     /\ assembly.page.is_national_team = "None"
     /\ Len(assembly.page.cols.infos) = 0
     /\ assembly.page.rows # <<>>)
    => /\ IsNationalTeam(assembly.page)
       /\ {assembly.records[i].id : i \in DOMAIN assembly.records}
             = {assembly.page.rows[j].url : j \in DOMAIN assembly.page.rows}

\* C28: browser_successes is incremented only when the browser rendering
\* itself gave the HTML that is returned; when the rendering failed and
\* scrape_with_fallback got the HTML through its plain GET, the attempt adds
\* to browser_requests and not to browser_successes.
C28_BrowserSuccessMeansRendered ==
    [][/\ monitor'.browser_successes # monitor.browser_successes
          => ret = Return("content")
       /\ (Running("make_request_with_browser_fallback") /\ ret = Return("text"))
          => monitor'.browser_requests = monitor.browser_requests + 1]_vars

(***************************************************************************)
(* Properties of the monitor called sequentially (specification            *)
(* SpecMonitor).                                                           *)
(***************************************************************************)
\* C27: under sequential record_request, record_retry, record_session_created,
\* record_browser_request and reset_stats calls, requests_total =
\* requests_successful + requests_failed, blocks_detected <= requests_total
\* and browser_successes <= browser_requests always hold, and no counter
\* decreases except through reset_stats, which sets every counter to zero.
C27_CountersConsistent ==
    /\ [](/\ monitor.requests_total
               = monitor.requests_successful + monitor.requests_failed
          /\ monitor.blocks_detected <= monitor.requests_total
          /\ monitor.browser_successes <= monitor.browser_requests)
    /\ [][\/ \A c \in DOMAIN monitor : monitor'[c] >= monitor[c]
          \/ \A c \in DOMAIN monitor : monitor'[c] = 0]_vars

C27_Witness ==
    /\ monitor.requests_total = 2
    /\ monitor.requests_failed = 1
    /\ monitor.blocks_detected = 2
    /\ monitor.browser_requests = 2
    /\ monitor.browser_successes = 1

(***************************************************************************)
(* Properties of the field extractor (specification SpecExtract).          *)
(***************************************************************************)
\* the entries lo .. hi-1 (counted from 0) of a sequence, as a Python slice
Between(seq, lo, hi) ==
    SubSeq(seq, Bound(Len(seq), lo, 0) + 1, Bound(Len(seq), hi, Len(seq)))

\* the entry a Python index names, or Nothing if there is none
EntryAt(seq, i) ==
    IF (0 - Len(seq)) <= i /\ i < Len(seq)
    THEN Some(seq[IF i < 0 THEN Len(seq) + i + 1 ELSE i + 1])
    ELSE Nothing

\* C22: get_text_by_xpath on an initialized page never raises; it returns
\* None when nothing matches or the index (iloc if given, else pos) is out of
\* range of the selected matches, else the trimmed match at that index, or
\* with a separator the join of the selected matches.
C22_ExtractNeverRaises ==
    extract.done =>
        LET selected == Between(TrimmedNonEmpty(extract.matches),
                                extract.iloc_from, extract.iloc_to)
            index == IF IsInt(extract.iloc) THEN extract.iloc[1] ELSE extract.pos
        IN  /\ extract.error = ""
            /\ extract.matches = <<>> => extract.result = Nothing
            /\ (extract.matches # <<>> /\ ~IsInt(extract.join_str))
                  => extract.result = EntryAt(selected, index)
            /\ (extract.matches # <<>> /\ IsInt(extract.join_str) /\ ~IsInt(extract.iloc))
                  => extract.result = Some(Join(extract.join_str[1], selected))

\* C26: with iloc_from = a and iloc_to = b both given (and no iloc) the
\* selection is exactly the non-empty matches at positions a .. b-1: with a
\* separator the result is their join in order, without one the match at
\* position pos among them.
C26_SliceIsFromToExclusive ==
    (/\ extract.done
     /\ extract.matches # <<>>
     /\ ~IsInt(extract.iloc)
     /\ IsInt(extract.iloc_from) /\ IsInt(extract.iloc_to)
     /\ extract.iloc_from[1] >= 0 /\ extract.iloc_to[1] >= 0)
    => LET M == TrimmedNonEmpty(extract.matches)
           a == extract.iloc_from[1]
           b == extract.iloc_to[1]
           selected == [i \in 1..(Min(b, Len(M)) - Min(a, Min(b, Len(M)))) |-> M[a + i]]
       IN  /\ extract.error = ""
           /\ extract.result =
                 IF IsInt(extract.join_str) THEN Some(Join(extract.join_str[1], selected))
                 ELSE EntryAt(selected, extract.pos)

(***************************************************************************)
(* Properties of the competition-clubs seasons (specification              *)
(* SpecClubsCall).                                                         *)
(***************************************************************************)
\* what the season claim says of a finished request whose season Y is at
\* least `least`
SeasonOffsetFrom(least) ==
    (clubs_call.pc = "done" /\ Truthy(clubs_call.season_id)) =>
        LET Y == clubs_call.season_id[1]
        IN  IF clubs_call.competition_id \in NATIONAL_TEAM_COMPETITIONS
            THEN Y >= least =>
                    /\ clubs_call.URL = Some(Y - 1)
                    /\ (Truthy(clubs_call.page) /\ IsDigit(clubs_call.page[1]))
                          => clubs_call.seasonId = Some(clubs_call.page[1] + 1)
                    /\ clubs_call.page = clubs_call.URL
                          => clubs_call.seasonId = Some(Y)
            ELSE /\ clubs_call.URL = Some(Y)
                 /\ clubs_call.seasonId = clubs_call.page

\* C29: for a national-team competition requested with a numeric season Y the
\* URL carries Y-1 and the response seasonId is the season of the page's
\* canonical URL plus 1, so a page echoing the URL's season gives seasonId = Y;
\* for other competitions no offset is applied either way.
C29_SeasonOffsetRoundTrip == SeasonOffsetFrom(0)

(***************************************************************************)
(* Properties of the competition seasons (specification SpecSeasonsCall).  *)
(***************************************************************************)
\* a token that parses to a start year and an end year: one all-digit part,
\* or two parts that are numbers
ParsesToYears(token) ==
    \/ Len(token) = 1 /\ token[1].isdigit
    \/ Len(token) = 2 /\ token[1].int # Nothing /\ token[2].int # Nothing

\* C30: for every list of season tokens __parse_seasons returns a list and
\* never raises; a token that does not parse to a start year and an end year
\* is skipped; every emitted season has integer startYear and endYear and
\* appears once per distinct season name.
C30_ParseSeasonsNeverRaises ==
    seasons_call.done =>
        /\ seasons_call.error = ""
        /\ \A i \in DOMAIN seasons_call.seasons :
            /\ ParsesToYears(seasons_call.seasons[i].seasonName)
            /\ seasons_call.seasons[i].startYear \in Nat
            /\ seasons_call.seasons[i].endYear \in Nat
            /\ \E k \in DOMAIN seasons_call.season_options :
                  seasons_call.season_options[k] = seasons_call.seasons[i].seasonName
            /\ \A j \in DOMAIN seasons_call.seasons :
                  i # j => seasons_call.seasons[i].seasonName
                             # seasons_call.seasons[j].seasonName

====
